---- MODULE Spec2Model ----
(***************************************************************************)
(* Flow reachability of the water-utility dashboard:                       *)
(* AdvancedWaterFlowSystem.computeMultiTankBFS of src/gatevalve.js and the *)
(* geometry helpers it calls.                                              *)
(*                                                                         *)
(* Geometry.  Points live on a local plane whose grid unit is 10 metres;   *)
(* map.distance (the mapping library) is the Euclidean distance of that    *)
(* plane.  A distance is carried as its square in square metres, rounded   *)
(* down, so `dist < 50` of the code is `distSq < 50*50` here (exact,       *)
(* because the thresholds are whole numbers).                              *)
(*                                                                         *)
(* Indices.  Node and segment indices are the 0-based indices of the code; *)
(* node i of a pipeline is nodes[i + 1] of the TLA+ sequence.              *)
(***************************************************************************)
EXTENDS Integers, Sequences, FiniteSets, TLC

\* ------------------------------------------------------------------ bounds
\* most nodes a pipeline of the snapshot has
MaxNodes == 4
\* most active tanks passed to one computation
MaxTanks == 2
\* most valves held by the gate valve system
MaxValves == 1
\* most computations run on one snapshot
MaxRuns == 2
\* most valves in the collection one getBlockingValve call looks through
MaxBlockers == 2
\* most tank toggles made by the clients together
MaxPuts == 3
\* update messages one client handles
MaxTriggers == 3
\* tank operations one client starts
MaxOps == 3
\* largest coordinate of a projected point or segment end, in grid units
MaxCoord == 3
\* requests that change a valve row
MaxRequests == 3
\* messages the server broadcasts about tanks
MaxBroadcasts == 3
\* SSE connections made to the server
MaxConnects == 3
\* the water levels a sensor reports
MaxLevel == 2
\* calls of wsDebug.connect
MaxDebugConnects == 1
\* sensor readings that arrive while the client runs
MaxSamples == 3
\* EventSources a client makes
MaxSources == 3
\* stream errors reported to a client
MaxErrors == 2
\* erasures of a section of the saved pipeline
MaxErases == 1
\* nodes drawn with the pen tool
MaxDrawn == 1
\* calls of saveValve
MaxSubmits == 2

\* ------------------------------------------------------- program constants
CONNECT_DISTANCE == 50
VALVE_BLOCK_DISTANCE == 15
maxIterations == 10000
\* the server delays its tank broadcast by this many milliseconds
BROADCAST_DELAY == 300
MAX_RECONNECT == 10
\* the delay of the n-th reconnect is n times this many ms
RECONNECT_STEP == 3000
\* the chart keeps this many samples
CHART_LIMIT == 50
SNAP_DISTANCE == 50
\* limit of the history route when the request names none
HISTORY_LIMIT == 100

\* ---------------------------------------------------------------- helpers
Pt(x, y) == [lat |-> x, lng |-> y]

RECURSIVE Flatten(_)
\* concatenation of a sequence of sequences, in order
Flatten(ss) == IF ss = <<>> THEN <<>> ELSE Head(ss) \o Flatten(Tail(ss))

\* the 0-based indices 0 .. n-1 as a sequence, in loop order
Indices(n) == [k \in 1..n |-> k - 1]

\* ---------------------------------------------------------------- geometry
\* square of the distance between `point` and the point
\* (xxNum/den, yyNum/den), in square metres, rounded down
mapDistanceSqTo(point, xxNum, yyNum, den) ==
    LET dx  == point.lat * den - xxNum
        dy  == point.lng * den - yyNum
        num == dx * dx + dy * dy
        dd  == den * den
    IN  (num \div dd) * 100 + ((num % dd) * 100) \div dd

\* map.distance(p, q), squared
mapDistanceSq(p, q) == mapDistanceSqTo(p, q.lat, q.lng, 1)

\* the closest point of segment segStart-segEnd to `point`, as the rational
\* point (num.lat/den, num.lng/den): the projection of distanceToSegment
closestOnSegment(point, segmentStart, segmentEnd) ==
    LET A == point.lat - segmentStart.lat
        B == point.lng - segmentStart.lng
        C == segmentEnd.lat - segmentStart.lat
        D == segmentEnd.lng - segmentStart.lng
        dot   == A * C + B * D
        lenSq == C * C + D * D
    IN  IF lenSq = 0 \/ dot < 0
          THEN [lat |-> segmentStart.lat, lng |-> segmentStart.lng, den |-> 1]
        ELSE IF dot > lenSq
          THEN [lat |-> segmentEnd.lat, lng |-> segmentEnd.lng, den |-> 1]
        ELSE [lat |-> segmentStart.lat * lenSq + dot * C,
              lng |-> segmentStart.lng * lenSq + dot * D,
              den |-> lenSq]

\* distanceToSegment(point, segmentStart, segmentEnd), squared
distanceToSegment(point, segmentStart, segmentEnd) ==
    LET c == closestOnSegment(point, segmentStart, segmentEnd)
    IN  mapDistanceSqTo(point, c.lat, c.lng, c.den)

\* `dist < limit` for a squared distance
Within(distSq, limit) == distSq < limit * limit

\* ------------------------------------------------------------------- state
VARIABLES
    tanks,                  \* the active tanks handed to the computation
    pipelines,              \* the pipeline rows handed to the computation
    valves,                 \* gateValveSystem.valves
    pc,                     \* "idle" | "loop": where the computation stands
    closedValves,           \* locals of computeMultiTankBFS, from here on
    queue,
    visitedPipelineNodes,
    visitedSegments,
    blockedSegments,
    flowData,
    iterations,
    returned,               \* the results returned so far, oldest first
    checkedStart,           \* the segment one blocking check is about
    checkedEnd,
    checkedValve,           \* what getBlockingValve returned (<< >> = null)
    segmentStatus,          \* "unchecked" | "closed valves read" |
                            \* "blocked" | "flowing"
    dbTanks,                \* server: isActive of each row of table tanks
    putRequests,            \* PUT /api/tank requests sent and not yet served
    broadcastTimeout,       \* server: the timer handle (0 = null)
    timers,                 \* server: the timeouts set and not yet run
    timerCount,             \* server: the timer handles given out so far
    sinceUpdate,            \* ms since the last tank update was stored
    bursts,                 \* the bursts of tank updates begun so far
    broadcasts,             \* the tank_updated messages broadcast so far
    wsInbox,                \* per client: messages sent to it, not yet handled
    clientTanks,            \* per client: isActive of waterFlowSystem.tanks
    putCount,               \* the tank toggles made so far
    serverPipelines,        \* server: the rows GET /api/pipelines answers with
    flowLayers,             \* waterFlowSystem.flowLayers: the lines on the map
    awaiting,               \* recalculateAllFlows calls awaiting their fetch
    statistics,             \* what updateFlowStatistics last displayed
    triggerCount,           \* the update messages handled so far
    wfsTanks,               \* waterFlowSystem.tanks
    activeTanks,            \* waterFlowSystem.activeTanks
    pendingOps,             \* tank operations awaiting their server call
    opCount,                \* the tank operations started so far
    projInput,              \* a point and a segment handed to the projections
    projOutput,             \* what each projection routine returned for them
    dbValves,               \* server: the rows of table gate_valves, by valveId
    valveRequests,          \* PATCH .../toggle requests the server has not answered
    valveAnswers,           \* the answers the server gave to valve requests
    valveOriginal,          \* the rows of gate_valves before the first request
    sseClients,             \* server: Map deviceId -> the responses streaming to
    firebaseListeners,      \* server: Map deviceId -> the listener started
    registeredListeners,    \* the listeners registered with Firebase (on, not off)
    pendingLookups,         \* tank lookups of connects whose callback has not run
    connectCount,           \* the SSE connections made so far
    tankRows,               \* server: tankId -> the name, waterLevel and isActive of the row
    editingTankId,          \* client: the tank the tank form edits, NoTank for none
    ws,                     \* client: readyState of the socket ws refers to, "none" before the first
    olderSockets,           \* the sockets ws no longer refers to that are not closed yet
    reconnectAttempts,      \* client: the reconnects scheduled since the last open
    reconnectTimers,        \* the delays (ms) of the pending setTimeout(connectWebSocket)
    closesSinceOpen,        \* the closes since the last open of a socket, or since the start
    debugConnects,          \* the calls of wsDebug.connect made so far
    eventSources,           \* client: readyState and device of every EventSource made
    activeStreams,          \* LiveSensorManager: Map deviceId -> its EventSource
    retryTimers,            \* the pending 5 s retries of onerror, per device
    chartData,              \* LiveSensorManager: Map deviceId -> the chart samples
    sensorRows,             \* server: the rows of sensor_data_history of the device with a tank
    sampleCount,            \* the readings that arrived since the client started
    errorCount,             \* the stream errors reported so far
    isDrawing,              \* client: the pen tool is on
    isErasing,              \* client: the eraser is on
    isAddingTank,           \* client: the next map click places a tank
    valveAddMode,           \* client: the next map click places a valve
    selectedPipelineId,     \* client: the pipeline selected in the list, 0 for null
    eraserStartNode,        \* client: Null or the index of the first eraser click
    eraserEndNode,          \* client: Null or the index of the second eraser click
    savedNodes,             \* the nodes of the saved pipeline (savedPipelines, id 1)
    drawnNodes,             \* client: `nodes`, the nodes of the pipeline being drawn
    tempTankMarker,         \* client: a tank marker waits on the map
    tempValveMarker,        \* client: a valve marker waits on the map
    valveMarkerPosition,    \* client: Null or the place of the valve marker
    editingValveId,         \* client: the valve the valve form edits, "" for null
    valveForm,              \* client: the valve id and name typed into the valve form
    eraseClicks,            \* the node indices of the eraser clicks since the eraser was put on
    eraseCalls,             \* the calls of eraseSection: nodes, startIdx, endIdx, what was sent
    clickHandlers,          \* the handlers that took the last map click
    valveSends,             \* the valve data sent to the server by saveValve
    submitCount             \* the calls of saveValve made so far

\* the state of a flow computation, and of a single blocking check
engineVars == <<tanks, pipelines, valves, pc, closedValves, queue,
                visitedPipelineNodes, visitedSegments, blockedSegments,
                flowData, iterations, returned>>
checkVars == <<checkedStart, checkedEnd, checkedValve,  segmentStatus>>

\* the state of the server and of the clients synchronised with it
syncVars == <<dbTanks, putRequests, broadcastTimeout, timers, timerCount,
              sinceUpdate, bursts, broadcasts, wsInbox, clientTanks, putCount>>

\* the state of a client's flow display, and of its tank lists
recalcVars == <<serverPipelines, flowLayers, awaiting, statistics,
                triggerCount>>
uiVars == <<wfsTanks, activeTanks, pendingOps, opCount>>

\* the arguments and results of the projection routines
projVars == <<projInput, projOutput>>
\* the valve table of the server and the requests that change it
valveVars == <<dbValves, valveRequests, valveAnswers, valveOriginal>>
\* the sensor streams of the server and its Firebase listeners
streamVars == <<sseClients, firebaseListeners, registeredListeners, pendingLookups, connectCount>>
\* the tank form of the client and the rows it is saved to
formVars == <<tankRows, editingTankId>>
\* the WebSocket of a client and its reconnects
socketVars == <<ws, olderSockets, reconnectAttempts, reconnectTimers, closesSinceOpen, debugConnects>>
\* the live sensor streams and charts of a client
sensorVars == <<eventSources, activeStreams, retryTimers, chartData, sensorRows, sampleCount, errorCount>>
\* the drawing, erasing and placing tools of the map
mapVars == <<isDrawing, isErasing, isAddingTank, valveAddMode, selectedPipelineId, eraserStartNode, eraserEndNode, savedNodes, drawnNodes, tempTankMarker, tempValveMarker, valveMarkerPosition, editingValveId, valveForm, eraseClicks, eraseCalls, clickHandlers, valveSends, submitCount>>

\* the flow display with its server, and the rest of the application
flowVars == <<engineVars, checkVars, syncVars, recalcVars, uiVars>>
appVars == <<projVars, valveVars, streamVars, formVars, socketVars, sensorVars, mapVars>>

vars == <<flowVars, appVars>>

\* the locals of a computation
computationVars == <<pc, closedValves, queue, visitedPipelineNodes,
                     visitedSegments, blockedSegments, flowData, iterations,
                     returned>>
\* what the server's tank broadcast and the clients' sockets hold
broadcastVars == <<putRequests, broadcastTimeout, timers, timerCount,
                   sinceUpdate, bursts, broadcasts, wsInbox, clientTanks,
                   putCount>>

\* ------------------------------------------------- computeMultiTankBFS parts
\* JSON.parse(pipeline.nodes): the node list stored with the pipeline
ParseNodes(pipeline) == pipeline.nodes

\* a filter that keeps the open valves instead of the closed ones
ClosedValvesOf_open(vs) == SelectSeq(vs, LAMBDA v : v.isOpen)

\* the valve collection taken as it is, open valves included
ClosedValvesOf_unfiltered(vs) == vs

\* gateValveSystem.valves.filter(v => !v.isOpen)
ClosedValvesOf(vs) == SelectSeq(vs, LAMBDA v : ~v.isOpen)

\* getBlockingValve measuring to the start node of the segment only
getBlockingValve_toStartNode(segmentStart, segmentEnd, closedVs, maxDistance) ==
    LET near == SelectSeq(closedVs, LAMBDA valve :
                   Within(mapDistanceSq(Pt(valve.latitude, valve.longitude),
                                        segmentStart),
                          maxDistance))
    IN  IF near = <<>> THEN <<>> ELSE <<Head(near)>>

\* getBlockingValve: the first closed valve within maxDistance of the segment,
\* as a one-element sequence; << >> stands for null
getBlockingValve(segmentStart, segmentEnd, closedVs, maxDistance) ==
    LET near == SelectSeq(closedVs, LAMBDA valve :
                   Within(distanceToSegment(Pt(valve.latitude, valve.longitude),
                                            segmentStart, segmentEnd),
                          maxDistance))
    IN  IF near = <<>> THEN <<>> ELSE <<Head(near)>>

\* seeding that enters every pipeline at its first node, whatever the distance
SeedEntries_noDistance(tank, pipeline) ==
    IF Len(ParseNodes(pipeline)) = 0 THEN <<>>
    ELSE <<[pipelineId |-> pipeline.id, nodeIndex |-> 0,
            sourceTank |-> tank.name]>>

\* seeding of one tank into one pipeline: the first node within the connect
\* distance, then the first segment within the connect distance
SeedEntries(tank, pipeline) ==
    LET nodes   == ParseNodes(pipeline)
        tankPt  == Pt(tank.latitude, tank.longitude)
        nodeHit == SelectSeq(Indices(Len(nodes)), LAMBDA idx :
                      Within(mapDistanceSq(tankPt, nodes[idx + 1]),
                             CONNECT_DISTANCE))
        segHit  == IF Len(nodes) < 2 THEN <<>>
                   ELSE SelectSeq(Indices(Len(nodes) - 1), LAMBDA i :
                          Within(distanceToSegment(tankPt, nodes[i + 1],
                                                   nodes[i + 2]),
                                 CONNECT_DISTANCE))
        entry(idx) == [pipelineId |-> pipeline.id, nodeIndex |-> idx,
                       sourceTank |-> tank.name]
    IN  (IF nodeHit = <<>> THEN <<>> ELSE <<entry(Head(nodeHit))>>)
        \o (IF segHit = <<>> THEN <<>> ELSE <<entry(Head(segHit))>>)

\* seeding in which each tank starts the queue afresh: only the last tank
\* is left in it
SeedQueue_lastTankOnly(tks, pls) ==
    IF tks = <<>> THEN <<>>
    ELSE Flatten([p \in 1..Len(pls) |-> SeedEntries(tks[Len(tks)], pls[p])])

\* the queue after the seeding loops: tanks outermost, pipelines inside
SeedQueue(tks, pls) ==
    Flatten([t \in 1..Len(tks) |->
               Flatten([p \in 1..Len(pls) |-> SeedEntries(tks[t], pls[p])])])

\* a segment key that is only skipped when it is blocked
AlreadyClassified_blockedOnly(acc, segmentKey) ==
    segmentKey \in acc.blockedSegments

\* visitedSegments.has(segmentKey) || blockedSegments.has(segmentKey)
AlreadyClassified(acc, segmentKey) ==
    segmentKey \in acc.visitedSegments \/ segmentKey \in acc.blockedSegments

RECURSIVE ScanSegments(_, _, _, _, _)
\* the segment loop of one dequeued entry, from segment i on; acc carries
\* visitedSegments, blockedSegments and the two result lists
\* (`index` is the i of the segment key, kept with each pushed entry so that
\* a reported segment can be named (pipelineId, segmentIndex))
ScanSegments(acc, current, currentNodes, closedVs, i) ==
    IF i >= Len(currentNodes) - 1 THEN acc
    ELSE
      LET segmentKey == <<current.pipelineId, i, i + 1>>
      IN  IF AlreadyClassified(acc, segmentKey)
            THEN ScanSegments(acc, current, currentNodes, closedVs, i + 1)
          ELSE
            LET blockingValve ==
                  getBlockingValve(currentNodes[i + 1], currentNodes[i + 2],
                                   closedVs, VALVE_BLOCK_DISTANCE)
            IN  IF blockingValve # <<>>
                  THEN [acc EXCEPT
                          !.blockedSegments = @ \cup {segmentKey},
                          !.blockedList = Append(@,
                             [pipelineId |-> current.pipelineId,
                              index |-> i,
                              start |-> currentNodes[i + 1],
                              end |-> currentNodes[i + 2],
                              status |-> "blocked",
                              blockedBy |-> blockingValve[1].name])]
                ELSE ScanSegments(
                       [acc EXCEPT
                          !.visitedSegments = @ \cup {segmentKey},
                          !.segments = Append(@,
                             [pipelineId |-> current.pipelineId,
                              index |-> i,
                              start |-> currentNodes[i + 1],
                              end |-> currentNodes[i + 2],
                              status |-> "flowing",
                              sourceTank |-> current.sourceTank])],
                       current, currentNodes, closedVs, i + 1)

\* a scan that starts at the entry node instead of segment 0
ScanPipeline_fromEntry(acc, current, currentNodes, closedVs) ==
    ScanSegments(acc, current, currentNodes, closedVs, current.nodeIndex)

\* the segment scan of one dequeued entry: all segments, from index 0
ScanPipeline(acc, current, currentNodes, closedVs) ==
    ScanSegments(acc, current, currentNodes, closedVs, 0)

\* the propagation checks without the segment-to-node check
AdjacentMatches_noSegmentToNode(currentNodes, otherNodes) ==
    LET nc == Len(currentNodes)
        no == Len(otherNodes)
        perNode(currentIdx) ==
          LET currentNode == currentNodes[currentIdx + 1]
          IN  SelectSeq(Indices(no), LAMBDA otherIdx :
                 Within(mapDistanceSq(currentNode, otherNodes[otherIdx + 1]),
                        CONNECT_DISTANCE))
              \o (IF no < 2 THEN <<>>
                  ELSE SelectSeq(Indices(no - 1), LAMBDA i :
                         Within(distanceToSegment(currentNode,
                                   otherNodes[i + 1], otherNodes[i + 2]),
                                CONNECT_DISTANCE)))
    IN  Flatten([k \in 1..nc |-> perNode(k - 1)])

\* the node indices of the other pipeline that the three proximity checks of
\* the propagation step match, in the order the loops meet them
AdjacentMatches(currentNodes, otherNodes) ==
    LET nc == Len(currentNodes)
        no == Len(otherNodes)
        perNode(currentIdx) ==
          LET currentNode == currentNodes[currentIdx + 1]
          IN  SelectSeq(Indices(no), LAMBDA otherIdx :
                 Within(mapDistanceSq(currentNode, otherNodes[otherIdx + 1]),
                        CONNECT_DISTANCE))
              \o (IF no < 2 THEN <<>>
                  ELSE SelectSeq(Indices(no - 1), LAMBDA i :
                         Within(distanceToSegment(currentNode,
                                   otherNodes[i + 1], otherNodes[i + 2]),
                                CONNECT_DISTANCE)))
        perSegment(i) ==
          SelectSeq(Indices(no), LAMBDA otherIdx :
             Within(distanceToSegment(otherNodes[otherIdx + 1],
                       currentNodes[i + 1], currentNodes[i + 2]),
                    CONNECT_DISTANCE))
    IN  Flatten([k \in 1..nc |-> perNode(k - 1)])
        \o (IF nc < 2 THEN <<>>
            ELSE Flatten([k \in 1..(nc - 1) |-> perSegment(k - 1)]))

\* the entries the propagation step pushes for one other pipeline
PropagateTo(current, currentNodes, otherPipeline, visitedNodes) ==
    IF otherPipeline.id = current.pipelineId THEN <<>>
    ELSE
      LET hits  == AdjacentMatches(currentNodes, ParseNodes(otherPipeline))
          fresh == SelectSeq(hits, LAMBDA otherIdx :
                      <<otherPipeline.id, otherIdx>> \notin visitedNodes)
      IN  [k \in 1..Len(fresh) |->
             [pipelineId |-> otherPipeline.id, nodeIndex |-> fresh[k],
              sourceTank |-> current.sourceTank]]

\* the entries the propagation step pushes, over all pipelines in order
Propagate(current, currentNodes, pls, visitedNodes) ==
    Flatten([p \in 1..Len(pls) |->
               PropagateTo(current, currentNodes, pls[p], visitedNodes)])

\* locals of which visitedSegments outlives the computation
SeededState_keepsVisited(tks, pls) ==
    [queue |-> SeedQueue(tks, pls),
     visitedPipelineNodes |-> {},
     visitedSegments |-> visitedSegments,
     blockedSegments |-> {},
     segments |-> <<>>,
     blockedList |-> <<>>,
     pipelineStatus |-> {},
     iterations |-> 0]

\* the local state of a computation right after seeding
SeededState(tks, pls) ==
    [queue |-> SeedQueue(tks, pls),
     visitedPipelineNodes |-> {},
     visitedSegments |-> {},
     blockedSegments |-> {},
     segments |-> <<>>,
     blockedList |-> <<>>,
     pipelineStatus |-> {},
     iterations |-> 0]

\* a pass that counts an iteration only when it processes the entry
Iterate_countsProcessedOnly(st, pls, closedVs) ==
    LET current == Head(st.queue)
        rest    == Tail(st.queue)
        found   == SelectSeq(pls, LAMBDA p : p.id = current.pipelineId)
        skipped == [st EXCEPT !.queue = rest]
        popped  == [st EXCEPT !.queue = rest, !.iterations = @ + 1]
    IN  IF found = <<>> THEN skipped
        ELSE
          LET currentPipeline == Head(found)
              currentNodes    == ParseNodes(currentPipeline)
              nodeKey         == <<current.pipelineId, current.nodeIndex>>
          IN  IF nodeKey \in st.visitedPipelineNodes THEN skipped
              ELSE
                LET visitedNodes == st.visitedPipelineNodes \cup {nodeKey}
                    scanned == ScanPipeline(popped, current, currentNodes,
                                            closedVs)
                IN  [scanned EXCEPT
                       !.visitedPipelineNodes = visitedNodes,
                       !.pipelineStatus = @ \cup {currentPipeline.id},
                       !.queue = @ \o Propagate(current, currentNodes, pls,
                                                visitedNodes)]

\* a pass that processes the entry whether or not its key was visited
Iterate_noVisitedCheck(st, pls, closedVs) ==
    LET current == Head(st.queue)
        rest    == Tail(st.queue)
        found   == SelectSeq(pls, LAMBDA p : p.id = current.pipelineId)
        popped  == [st EXCEPT !.queue = rest, !.iterations = @ + 1]
    IN  IF found = <<>> THEN popped
        ELSE
          LET currentPipeline == Head(found)
              currentNodes    == ParseNodes(currentPipeline)
              nodeKey         == <<current.pipelineId, current.nodeIndex>>
              visitedNodes    == st.visitedPipelineNodes \cup {nodeKey}
              scanned == ScanPipeline(popped, current, currentNodes, closedVs)
          IN  [scanned EXCEPT
                 !.visitedPipelineNodes = visitedNodes,
                 !.pipelineStatus = @ \cup {currentPipeline.id},
                 !.queue = @ \o Propagate(current, currentNodes, pls,
                                          visitedNodes)]

\* one pass of the while loop
Iterate(st, pls, closedVs) ==
    LET current == Head(st.queue)
        rest    == Tail(st.queue)
        found   == SelectSeq(pls, LAMBDA p : p.id = current.pipelineId)
        popped  == [st EXCEPT !.queue = rest, !.iterations = @ + 1]
    IN  IF found = <<>> THEN popped
        ELSE
          LET currentPipeline == Head(found)
              currentNodes    == ParseNodes(currentPipeline)
              nodeKey         == <<current.pipelineId, current.nodeIndex>>
          IN  IF nodeKey \in st.visitedPipelineNodes THEN popped
              ELSE
                LET visitedNodes == st.visitedPipelineNodes \cup {nodeKey}
                    scanned == ScanPipeline(popped, current, currentNodes,
                                            closedVs)
                IN  [scanned EXCEPT
                       !.visitedPipelineNodes = visitedNodes,
                       !.pipelineStatus = @ \cup {currentPipeline.id},
                       !.queue = @ \o Propagate(current, currentNodes, pls,
                                                visitedNodes)]

\* the loop condition
LoopRuns(st) == st.queue # <<>> /\ st.iterations < maxIterations

RECURSIVE RunLoop(_, _, _)
\* the while loop, run until its condition fails
RunLoop(st, pls, closedVs) ==
    IF LoopRuns(st) THEN RunLoop(Iterate(st, pls, closedVs), pls, closedVs)
    ELSE st

RECURSIVE SumSegments(_)
\* flowData.totalSegments after the closing forEach
SumSegments(pls) ==
    IF pls = <<>> THEN 0
    ELSE (Len(ParseNodes(Head(pls))) - 1) + SumSegments(Tail(pls))

\* the flowData a computation returns from its final local state
FlowDataOf(st, pls) ==
    [segments |-> st.segments,
     blockedSegments |-> st.blockedList,
     totalSegments |-> SumSegments(pls),
     pipelineStatus |-> st.pipelineStatus]

\* computeMultiTankBFS(tanks, pipelines), reading the valves of the gate
\* valve system
computeMultiTankBFS(tks, pls, vs) ==
    FlowDataOf(RunLoop(SeededState(tks, pls), pls, ClosedValvesOf(vs)), pls)

\* ------------------------------------------------------------------ inputs
\* a polyline of n nodes from origin o in steps of d
Straight(o, d, n) == [k \in 1..n |-> Pt(o.lat + (k - 1) * d.lat,
                                        o.lng + (k - 1) * d.lng)]

\* Pipelines (grid units of 10 m, nodes 100 m apart).  The main runs east
\* from (0,0); a side pipeline runs north from a point 40 m off the middle
\* of the main's second segment (no node of the main within 50 m) or from a
\* point 30 m off the main's third node, and has one node or two.  Pipelines
\* of no node or one node are stored pipelines too.
MainSeqs == {Straight(Pt(0, 0), Pt(10, 0), n) : n \in 0..MaxNodes}
SideOrigins == {Pt(15, 4), Pt(20, 3)}
SideSeqs == {Straight(o, Pt(0, 10), n) : o \in SideOrigins, n \in 1..2}

\* the pipeline rows of the snapshot: none, the main alone, or the main and
\* a side pipeline in either order; ids as the database assigns them (unique)
WithIds(ns) == [k \in 1..Len(ns) |-> [id |-> k, nodes |-> ns[k]]]
PipelineLists ==
    {WithIds(<<>>)}
    \cup {WithIds(<<m>>) : m \in MainSeqs}
    \cup {WithIds(<<m, sd>>) : m \in MainSeqs, sd \in SideSeqs}
    \cup {WithIds(<<sd, m>>) : m \in MainSeqs, sd \in SideSeqs}

\* where tanks stand: on the main's first node, on its second node, and
\* beside its second segment only (10 m from the first side origin)
TankPts == {Pt(0, 0), Pt(10, 0), Pt(15, 3)}
TankAt(k, pt) == [name |-> k, latitude |-> pt.lat, longitude |-> pt.lng]
\* the active tanks: up to MaxTanks tanks at different places
TankLists ==
    UNION {{[k \in 1..n |-> TankAt(k, f[k])] :
               f \in {g \in [1..n -> TankPts] :
                         \A i \in 1..n : \A j \in 1..n : g[i] = g[j] => i = j}} :
              n \in 0..MaxTanks}

\* where valves sit: in the middle of the main's first or second segment
ValvePts == {Pt(5, 0), Pt(15, 0)}
\* valveId, the primary key of a valve row (TEXT)
ValveIdOf(k) == "V" \o ToString(k)
\* the name typed into the valve form: free text and not unique; the valve
\* at the first place is named by its id, a valve elsewhere "outlet"
ValveName(k, pt) == IF pt = Pt(5, 0) THEN ValveIdOf(k) ELSE "outlet"
\* a valve row: valveId and name are separate columns
ValveAt(k, pt, open) ==
    [valveId |-> ValveIdOf(k), name |-> ValveName(k, pt),
     latitude |-> pt.lat, longitude |-> pt.lng, isOpen |-> open]
ValveLists ==
    UNION {{[k \in 1..n |-> ValveAt(k, f[k][1], f[k][2])] :
               f \in [1..n -> ValvePts \X BOOLEAN]} : n \in 0..MaxValves}

\* ------------------------------------------------------------ computation
EmptyFlowData ==
    [segments |-> <<>>, blockedSegments |-> <<>>, totalSegments |-> 0,
     pipelineStatus |-> {}]

\* the locals as one record, and back
Locals ==
    [queue |-> queue,
     visitedPipelineNodes |-> visitedPipelineNodes,
     visitedSegments |-> visitedSegments,
     blockedSegments |-> blockedSegments,
     segments |-> flowData.segments,
     blockedList |-> flowData.blockedSegments,
     pipelineStatus |-> flowData.pipelineStatus,
     iterations |-> iterations]

SetLocals(st) ==
    /\ queue' = st.queue
    /\ visitedPipelineNodes' = st.visitedPipelineNodes
    /\ visitedSegments' = st.visitedSegments
    /\ blockedSegments' = st.blockedSegments
    /\ flowData' = [flowData EXCEPT !.segments = st.segments,
                                    !.blockedSegments = st.blockedList,
                                    !.pipelineStatus = st.pipelineStatus]
    /\ iterations' = st.iterations

\* no blocking check is under way
NoCheck ==
    /\ checkedStart = Pt(0, 0)
    /\ checkedEnd = Pt(0, 0)
    /\ checkedValve = <<>>
    /\ segmentStatus = "unchecked"

\* the clients and the tanks of the synchronisation
Clients == {"c1", "c2"}
TankIds == {"T1", "T2"}

\* no tank is stored, nothing is under way between clients and server
NoSync ==
    /\ dbTanks = [t \in {} |-> FALSE]
    /\ putRequests = [r \in {} |-> 0]
    /\ broadcastTimeout = 0
    /\ timers = {}
    /\ timerCount = 0
    /\ sinceUpdate = BROADCAST_DELAY
    /\ bursts = 0
    /\ broadcasts = <<>>
    /\ wsInbox = [c \in {} |-> <<>>]
    /\ clientTanks = [c \in {} |-> <<>>]
    /\ putCount = 0

\* no flow is displayed and no recalculation is under way
NoRecalc ==
    /\ serverPipelines = <<>>
    /\ flowLayers = <<>>
    /\ awaiting = 0
    /\ statistics = [flowingSegments |-> 0, totalSegments |-> 0,
                     coverage |-> 0]
    /\ triggerCount = 0

\* the client holds no tank and no tank operation is under way
NoTankUi ==
    /\ wfsTanks = <<>>
    /\ activeTanks = <<>>
    /\ pendingOps = {}
    /\ opCount = 0

\* no flow computation is under way and none has been
NoComputation ==
    /\ pc = "idle"
    /\ queue = <<>>
    /\ visitedPipelineNodes = {}
    /\ visitedSegments = {}
    /\ blockedSegments = {}
    /\ flowData = EmptyFlowData
    /\ iterations = 0
    /\ returned = <<>>

\* the flow display is not in use
NoFlow ==
    /\ tanks = <<>>
    /\ pipelines = <<>>
    /\ valves = <<>>
    /\ closedValves = <<>>
    /\ NoComputation
    /\ NoCheck
    /\ NoSync
    /\ NoRecalc
    /\ NoTankUi

\* no projection has been asked for
NoProjection ==
    /\ projInput = [point |-> Pt(0, 0), segStart |-> Pt(0, 0),
                    segEnd |-> Pt(0, 0)]
    /\ projOutput = <<>>

\* the valve table is not in use
NoValveRequests ==
    /\ dbValves = <<>>
    /\ valveRequests = {}
    /\ valveAnswers = <<>>
    /\ valveOriginal = <<>>

\* no client streams sensor data and no listener is started
NoStream ==
    /\ sseClients = <<>>
    /\ firebaseListeners = <<>>
    /\ registeredListeners = {}
    /\ pendingLookups = {}
    /\ connectCount = 0

\* no tank row is kept and the tank form edits nothing
NoTankForm ==
    /\ tankRows = <<>>
    /\ editingTankId = ""

\* the client has not connected its WebSocket yet
NoSocket ==
    /\ ws = "none"
    /\ olderSockets = [CONNECTING |-> 0, OPEN |-> 0]
    /\ reconnectAttempts = 0
    /\ reconnectTimers = <<>>
    /\ closesSinceOpen = 0
    /\ debugConnects = 0

\* the sensor manager has made no stream and keeps no sample
NoSensor ==
    /\ eventSources = <<>>
    /\ activeStreams = <<>>
    /\ retryTimers = <<>>
    /\ chartData = <<>>
    /\ sensorRows = 0
    /\ sampleCount = 0
    /\ errorCount = 0

\* no tool of the map is in use and no pipeline is saved
NoMapTools ==
    /\ isDrawing = FALSE
    /\ isErasing = FALSE
    /\ isAddingTank = FALSE
    /\ valveAddMode = FALSE
    /\ selectedPipelineId = 0
    /\ eraserStartNode = <<>>
    /\ eraserEndNode = <<>>
    /\ savedNodes = <<>>
    /\ drawnNodes = <<>>
    /\ tempTankMarker = FALSE
    /\ tempValveMarker = FALSE
    /\ valveMarkerPosition = <<>>
    /\ editingValveId = ""
    /\ valveForm = [valveId |-> "", name |-> ""]
    /\ eraseClicks = <<>>
    /\ eraseCalls = <<>>
    /\ clickHandlers = {}
    /\ valveSends = <<>>
    /\ submitCount = 0

\* nothing outside the flow display is in use
NoApp ==
    /\ NoProjection
    /\ NoValveRequests
    /\ NoStream
    /\ NoTankForm
    /\ NoSocket
    /\ NoSensor
    /\ NoMapTools

\* what lies beside the projection
besideProjection == <<flowVars, valveVars, streamVars, formVars, socketVars, sensorVars, mapVars>>
BesideProjectionIdle ==
    /\ NoFlow
    /\ NoValveRequests
    /\ NoStream
    /\ NoTankForm
    /\ NoSocket
    /\ NoSensor
    /\ NoMapTools

\* what lies beside the valves
besideValves == <<flowVars, projVars, streamVars, formVars, socketVars, sensorVars, mapVars>>
BesideValvesIdle ==
    /\ NoFlow
    /\ NoProjection
    /\ NoStream
    /\ NoTankForm
    /\ NoSocket
    /\ NoSensor
    /\ NoMapTools

\* what lies beside the stream
besideStream == <<flowVars, projVars, valveVars, formVars, socketVars, sensorVars, mapVars>>
BesideStreamIdle ==
    /\ NoFlow
    /\ NoProjection
    /\ NoValveRequests
    /\ NoTankForm
    /\ NoSocket
    /\ NoSensor
    /\ NoMapTools

\* what lies beside the form
besideForm == <<flowVars, projVars, valveVars, streamVars, socketVars, sensorVars, mapVars>>
BesideFormIdle ==
    /\ NoFlow
    /\ NoProjection
    /\ NoValveRequests
    /\ NoStream
    /\ NoSocket
    /\ NoSensor
    /\ NoMapTools

\* what lies beside the socket
besideSocket == <<flowVars, projVars, valveVars, streamVars, formVars, sensorVars, mapVars>>
BesideSocketIdle ==
    /\ NoFlow
    /\ NoProjection
    /\ NoValveRequests
    /\ NoStream
    /\ NoTankForm
    /\ NoSensor
    /\ NoMapTools

\* what lies beside the sensor
besideSensor == <<flowVars, projVars, valveVars, streamVars, formVars, socketVars, mapVars>>
BesideSensorIdle ==
    /\ NoFlow
    /\ NoProjection
    /\ NoValveRequests
    /\ NoStream
    /\ NoTankForm
    /\ NoSocket
    /\ NoMapTools

\* what lies beside the map
besideMap == <<flowVars, projVars, valveVars, streamVars, formVars, socketVars, sensorVars>>
BesideMapIdle ==
    /\ NoFlow
    /\ NoProjection
    /\ NoValveRequests
    /\ NoStream
    /\ NoTankForm
    /\ NoSocket
    /\ NoSensor

Init ==
    /\ tanks \in TankLists
    /\ pipelines \in PipelineLists
    /\ valves \in ValveLists
    /\ pc = "idle"
    /\ closedValves = <<>>
    /\ queue = <<>>
    /\ visitedPipelineNodes = {}
    /\ visitedSegments = {}
    /\ blockedSegments = {}
    /\ flowData = EmptyFlowData
    /\ iterations = 0
    /\ returned = <<>>
    /\ NoCheck
    /\ NoSync
    /\ NoRecalc
    /\ NoTankUi
    /\ NoApp

\* computeMultiTankBFS is entered: fresh locals, closed valves, seeding
Begin ==
    /\ pc = "idle"
    /\ Len(returned) < MaxRuns
    /\ pc' = "loop"
    /\ closedValves' = ClosedValvesOf(valves)
    /\ LET st == SeededState(tanks, pipelines)
       IN  /\ queue' = st.queue
           /\ visitedPipelineNodes' = st.visitedPipelineNodes
           /\ visitedSegments' = st.visitedSegments
           /\ blockedSegments' = st.blockedSegments
           /\ flowData' = [segments |-> st.segments,
                           blockedSegments |-> st.blockedList,
                           totalSegments |-> 0,
                           pipelineStatus |-> st.pipelineStatus]
           /\ iterations' = st.iterations
    /\ UNCHANGED <<tanks, pipelines, valves, returned>>
    /\ UNCHANGED <<checkVars, syncVars, recalcVars, uiVars, appVars>>

\* one pass of the while loop
LoopIteration ==
    /\ pc = "loop"
    /\ LoopRuns(Locals)
    /\ LET st == Iterate(Locals, pipelines, closedValves)
       IN  SetLocals(st)
    /\ UNCHANGED <<tanks, pipelines, valves, pc, closedValves, returned>>
    /\ UNCHANGED <<checkVars, syncVars, recalcVars, uiVars, appVars>>

\* the loop has ended: totalSegments is summed and flowData returned
Finish ==
    /\ pc = "loop"
    /\ ~LoopRuns(Locals)
    /\ flowData' = FlowDataOf(Locals, pipelines)
    /\ returned' = Append(returned, flowData')
    /\ pc' = "idle"
    /\ UNCHANGED <<tanks, pipelines, valves, closedValves, queue,
                   visitedPipelineNodes, visitedSegments, blockedSegments,
                   iterations>>
    /\ UNCHANGED <<checkVars, syncVars, recalcVars, uiVars, appVars>>

Next == Begin \/ LoopIteration \/ Finish

Spec == Init /\ [][Next]_vars

\* ---------------------------------------------------------------- results
\* a computation has returned
Done == pc = "idle" /\ returned # <<>>
\* the result returned last
Result == returned[Len(returned)]
\* the (pipelineId, segmentIndex) pairs a result reports flowing / blocked
FlowingOf(fd) == {<<fd.segments[k].pipelineId, fd.segments[k].index>> :
                     k \in 1..Len(fd.segments)}
BlockedOf(fd) == {<<fd.blockedSegments[k].pipelineId,
                    fd.blockedSegments[k].index>> :
                     k \in 1..Len(fd.blockedSegments)}

TypeOK == pc \in {"idle", "loop"}

\* ------------------------------------------- the network, stated directly
\* These definitions state connection, adjacency and blocking as relations
\* on the snapshot; the claims compare the computation with them.

SegmentsOf(p) == 0..(Len(ParseNodes(p)) - 2)
NodeAt(p, i) == ParseNodes(p)[i + 1]
TankPoint(t) == Pt(t.latitude, t.longitude)
ValvePoint(v) == Pt(v.latitude, v.longitude)
PipelineSet == {pipelines[k] : k \in 1..Len(pipelines)}
PipelineOf(id) == CHOOSE p \in PipelineSet : p.id = id

TankNearNode(t, p, i) ==
    Within(mapDistanceSq(TankPoint(t), NodeAt(p, i)), CONNECT_DISTANCE)
TankNearSegment(t, p, i) ==
    Within(distanceToSegment(TankPoint(t), NodeAt(p, i), NodeAt(p, i + 1)),
           CONNECT_DISTANCE)
\* the tank is within the connect distance of a node or a segment of p
TankConnects(t, p) ==
    \/ \E i \in 0..(Len(ParseNodes(p)) - 1) : TankNearNode(t, p, i)
    \/ \E i \in SegmentsOf(p) : TankNearSegment(t, p, i)

NodeNearNode(p, i, q, j) ==
    Within(mapDistanceSq(NodeAt(p, i), NodeAt(q, j)), CONNECT_DISTANCE)
NodeNearSegment(p, i, q, j) ==
    Within(distanceToSegment(NodeAt(p, i), NodeAt(q, j), NodeAt(q, j + 1)),
           CONNECT_DISTANCE)
\* some node of p is within the connect distance of a node or a segment of
\* q, or some node of q within the connect distance of a segment of p
PipelinesAdjacent(p, q) ==
    \/ \E i \in 0..(Len(ParseNodes(p)) - 1), j \in 0..(Len(ParseNodes(q)) - 1) :
          NodeNearNode(p, i, q, j)
    \/ \E i \in 0..(Len(ParseNodes(p)) - 1), j \in SegmentsOf(q) :
          NodeNearSegment(p, i, q, j)
    \/ \E i \in SegmentsOf(p), j \in 0..(Len(ParseNodes(q)) - 1) :
          NodeNearSegment(q, j, p, i)

\* the closed valves within the block distance of segment i of p
BlockersOf(p, i) ==
    {k \in 1..Len(valves) :
        /\ ~valves[k].isOpen
        /\ Within(distanceToSegment(ValvePoint(valves[k]), NodeAt(p, i),
                                    NodeAt(p, i + 1)),
                  VALVE_BLOCK_DISTANCE)}
SegmentBlocked(p, i) == BlockersOf(p, i) # {}
NoValveClosed == \A k \in 1..Len(valves) : valves[k].isOpen

\* the set of active tanks
TankSet == {tanks[k] : k \in 1..Len(tanks)}

\* pipelines within the connect distance of an active tank, and those linked
\* to them by a chain of pairwise adjacent pipelines
RECURSIVE AdjacencyClosure(_)
AdjacencyClosure(S) ==
    LET more == {q \in PipelineSet \ S : \E p \in S : PipelinesAdjacent(p, q)}
    IN  IF more = {} THEN S ELSE AdjacencyClosure(S \cup more)
ConnectedPipelines ==
    AdjacencyClosure({p \in PipelineSet : \E t \in TankSet : TankConnects(t, p)})

\* Water paths that cross no closed valve.  Places are the nodes
\* <<"n", id, i>>, the segments no valve blocks <<"s", id, i>>, and of a
\* blocked segment the part before its first blocking valve <<"a", id, i>>
\* and the part after its last one <<"b", id, i>>.

\* where on segment i of p the point pt projects: the dot product of
\* distanceToSegment, clamped to the segment
ProjectionOn(pt, p, i) ==
    LET C == NodeAt(p, i + 1).lat - NodeAt(p, i).lat
        D == NodeAt(p, i + 1).lng - NodeAt(p, i).lng
        dot   == (pt.lat - NodeAt(p, i).lat) * C + (pt.lng - NodeAt(p, i).lng) * D
        lenSq == C * C + D * D
    IN  IF lenSq = 0 \/ dot < 0 THEN 0 ELSE IF dot > lenSq THEN lenSq ELSE dot
BlockerProjections(p, i) ==
    {ProjectionOn(ValvePoint(valves[k]), p, i) : k \in BlockersOf(p, i)}

Places ==
    UNION {{<<"n", p.id, i>> : i \in 0..(Len(ParseNodes(p)) - 1)}
           \cup {<<"s", p.id, i>> : i \in {j \in SegmentsOf(p) :
                                              ~SegmentBlocked(p, j)}}
           \cup {<<"a", p.id, i>> : i \in {j \in SegmentsOf(p) :
                                              SegmentBlocked(p, j)}}
           \cup {<<"b", p.id, i>> : i \in {j \in SegmentsOf(p) :
                                              SegmentBlocked(p, j)}} :
           p \in PipelineSet}

\* the point pt is within the connect distance of the place y
Touches(pt, y) ==
    LET q == PipelineOf(y[2])
    IN  IF y[1] = "n"
          THEN Within(mapDistanceSq(pt, NodeAt(q, y[3])), CONNECT_DISTANCE)
        ELSE /\ Within(distanceToSegment(pt, NodeAt(q, y[3]),
                                         NodeAt(q, y[3] + 1)),
                       CONNECT_DISTANCE)
             /\ y[1] = "a" =>
                  \A d \in BlockerProjections(q, y[3]) :
                      ProjectionOn(pt, q, y[3]) <= d
             /\ y[1] = "b" =>
                  \A d \in BlockerProjections(q, y[3]) :
                      ProjectionOn(pt, q, y[3]) >= d

SourcePlaces == {y \in Places : \E t \in TankSet : Touches(TankPoint(t), y)}

\* the end nodes through which water enters or leaves the place x
EndsOf(x) ==
    IF x[1] = "s" THEN {x[3], x[3] + 1}
    ELSE IF x[1] = "a" THEN {x[3]}
    ELSE IF x[1] = "b" THEN {x[3] + 1}
    ELSE {}

\* water passes between the places x and y directly
Joined(x, y) ==
    IF x[2] = y[2]
      THEN \/ x[1] = "n" /\ x[3] \in EndsOf(y)
           \/ y[1] = "n" /\ y[3] \in EndsOf(x)
    ELSE \/ x[1] = "n" /\ Touches(NodeAt(PipelineOf(x[2]), x[3]), y)
         \/ y[1] = "n" /\ Touches(NodeAt(PipelineOf(y[2]), y[3]), x)

RECURSIVE WaterClosure(_)
WaterClosure(S) ==
    LET more == {y \in Places \ S : \E x \in S : Joined(x, y)}
    IN  IF more = {} THEN S ELSE WaterClosure(S \cup more)
\* the segments an active tank reaches without crossing a closed valve
ReachableSegments ==
    {<<x[2], x[3]>> : x \in {y \in WaterClosure(SourcePlaces) : y[1] = "s"}}

\* the segments of all pipelines, counted
RECURSIVE CountSegments(_)
CountSegments(pls) ==
    IF pls = <<>> THEN 0
    ELSE Cardinality(SegmentsOf(Head(pls))) + CountSegments(Tail(pls))

\* ------------------------------------------------------------------ claims

\* C1: every segment reported flowing is reachable from an active tank
\* without crossing a closed valve: a part of the network that the active
\* tanks reach only through blocked segments has no flowing segment.
C1_FlowingIsReachable ==
    Done => FlowingOf(Result) \subseteq ReachableSegments

\* C2: in the returned result no segment with a higher index than a blocked
\* segment of the same pipeline is reported flowing or blocked.
C2_NothingBeyondBlock ==
    Done => \A b \in BlockedOf(Result) :
               \A x \in FlowingOf(Result) \cup BlockedOf(Result) :
                   x[1] = b[1] => x[2] <= b[2]

\* the case of P3: one pipeline, one active tank within the connect distance
\* of node 0, one closed valve, within the block distance of segment k only
P3Case(k) ==
    /\ Len(pipelines) = 1
    /\ k \in SegmentsOf(pipelines[1])
    /\ Len(tanks) = 1
    /\ TankNearNode(tanks[1], pipelines[1], 0)
    /\ Len(ClosedValvesOf(valves)) = 1
    /\ \A i \in SegmentsOf(pipelines[1]) :
          SegmentBlocked(pipelines[1], i) <=> i = k

\* C3 (P3): in that case exactly segments 0..k-1 are flowing, segment k is
\* blocked and segments k+1..N-1 are neither.
C3_BlockCutsDownstream ==
    Done => \A k \in 0..MaxNodes :
               P3Case(k) =>
                 /\ FlowingOf(Result) = {<<pipelines[1].id, i>> : i \in 0..(k - 1)}
                 /\ BlockedOf(Result) = {<<pipelines[1].id, k>>}
                 /\ Len(Result.segments) = k
                 /\ Len(Result.blockedSegments) = 1

C3_Witness ==
    /\ Done
    /\ P3Case(1)
    /\ Len(ParseNodes(pipelines[1])) = 4
    /\ FlowingOf(Result) = {<<pipelines[1].id, 0>>}
    /\ BlockedOf(Result) = {<<pipelines[1].id, 1>>}

\* C4: each segment appears at most once in flowData.segments, at most once
\* in flowData.blockedSegments, and never in both (at every step, hence at
\* the end of every computation).
C4_OneClassPerSegment ==
    /\ Cardinality(FlowingOf(flowData)) = Len(flowData.segments)
    /\ Cardinality(BlockedOf(flowData)) = Len(flowData.blockedSegments)
    /\ FlowingOf(flowData) \cap BlockedOf(flowData) = {}

\* a pipeline was processed from two entry points, with a block in it
C4_Witness ==
    /\ Done
    /\ \E x \in visitedPipelineNodes, y \in visitedPipelineNodes :
          x[1] = y[1] /\ x[2] # y[2]
          /\ \E f \in FlowingOf(Result), b \in BlockedOf(Result) :
                f[1] = x[1] /\ b[1] = x[1]

\* the tank list with one more tank put at position pos (0 = in front)
InsertAt(tks, pos, t) ==
    SubSeq(tks, 1, pos) \o <<t>> \o SubSeq(tks, pos + 1, Len(tks))
\* one more active tank, at any of the tank places
MoreTanks == {TankAt(0, pt) : pt \in TankPts}

C6_NoTanksEmptyResult ==
    (Done /\ tanks = <<>>) =>
        /\ Result.segments = <<>>
        /\ Result.blockedSegments = <<>>
        /\ Result.totalSegments = CountSegments(pipelines)

\* C7 (P1): the computations run on one snapshot return identical results:
\* same flowing segments and attributions, same blocked segments and
\* blocking valves, same totalSegments.
C7_Idempotent ==
    \A i \in 1..Len(returned) : \A j \in 1..Len(returned) :
        returned[i] = returned[j]

\* a second computation has returned, with flowing and blocked segments
C7_Witness ==
    /\ pc = "idle"
    /\ Len(returned) >= 2
    /\ Result.segments # <<>>
    /\ Result.blockedSegments # <<>>

\* C8 (P5): the propagation step finds q adjacent while processing p iff it
\* finds p adjacent while processing q.
C8_AdjacencySymmetric ==
    Done => \A p \in PipelineSet : \A q \in PipelineSet :
               p.id # q.id =>
                 ((AdjacentMatches(ParseNodes(p), ParseNodes(q)) # <<>>)
                    <=> (AdjacentMatches(ParseNodes(q), ParseNodes(p)) # <<>>))

\* two pipelines were both processed that are adjacent although no two of
\* their nodes are within the connect distance
C8_Witness ==
    /\ Done
    /\ \E p \in PipelineSet, q \in PipelineSet :
          /\ p.id # q.id
          /\ {p.id, q.id} \subseteq Result.pipelineStatus
          /\ AdjacentMatches(ParseNodes(p), ParseNodes(q)) # <<>>
          /\ AdjacentMatches(ParseNodes(q), ParseNodes(p)) # <<>>
          /\ \A i \in 0..(Len(ParseNodes(p)) - 1) :
                \A j \in 0..(Len(ParseNodes(q)) - 1) : ~NodeNearNode(p, i, q, j)

\* the pipeline list without the pipeline p
Without(p) == SelectSeq(pipelines, LAMBDA q : q.id # p.id)

\* C9: a pipeline neither within the connect distance of an active tank nor
\* linked to such a pipeline by a chain of adjacent pipelines has no flowing
\* and no blocked segment in the result, while the segments it has are
\* counted in totalSegments.
C9_UnconnectedUntouched ==
    Done => \A p \in PipelineSet \ ConnectedPipelines :
               /\ \A x \in FlowingOf(Result) \cup BlockedOf(Result) : x[1] # p.id
               /\ SegmentsOf(p) # {} =>
                    Result.totalSegments =
                      computeMultiTankBFS(tanks, Without(p), valves).totalSegments
                        + Cardinality(SegmentsOf(p))

\* an unconnected pipeline with segments next to a pipeline with flow
C9_Witness ==
    /\ Done
    /\ FlowingOf(Result) # {}
    /\ \E p \in PipelineSet \ ConnectedPipelines :
          /\ SegmentsOf(p) # {}
          /\ \A x \in FlowingOf(Result) \cup BlockedOf(Result) : x[1] # p.id

\* C10: with no valve closed and the iteration cap not reached, every
\* segment of every connected pipeline is reported flowing, whatever node
\* index the pipeline was entered at.
C10_AllConnectedFlow ==
    (Done /\ NoValveClosed /\ iterations < maxIterations) =>
        \A p \in ConnectedPipelines : \A i \in SegmentsOf(p) :
            <<p.id, i>> \in FlowingOf(Result)

\* two connected pipelines, one of them entered only at nodes after node 0,
\* all segments flowing (coverage 100%)
C10_Witness ==
    /\ Done
    /\ NoValveClosed
    /\ Len(pipelines) = 2
    /\ ConnectedPipelines = PipelineSet
    /\ \E p \in PipelineSet :
          /\ Len(ParseNodes(p)) >= 3
          /\ \E x \in visitedPipelineNodes : x[1] = p.id
          /\ \A x \in visitedPipelineNodes : x[1] = p.id => x[2] > 0
    /\ Len(Result.segments) = Result.totalSegments
    /\ Result.totalSegments >= 3

\* C12: every entry of the blocked list is tagged with the valveId of a
\* closed valve within the block distance of its segment.
C12_BlockedTaggedWithValveId ==
    Done => \A k \in 1..Len(Result.blockedSegments) :
               LET b == Result.blockedSegments[k]
               IN  \E v \in BlockersOf(PipelineOf(b.pipelineId), b.index) :
                      b.blockedBy = valves[v].valveId

\* C13: totalSegments is the sum over all pipelines of max(0, nodeCount - 1)
\* and is never negative.
C13_TotalSegments ==
    Done => /\ Result.totalSegments = CountSegments(pipelines)
            /\ Result.totalSegments >= 0

\* C14: a pipeline with fewer than two nodes is inert: the flowing and the
\* blocked segments are those computed with that pipeline removed.
C14_ShortPipelineInert ==
    (Done /\ Len(returned) = 1) =>
        \A p \in PipelineSet :
            Len(ParseNodes(p)) < 2 =>
                LET without == computeMultiTankBFS(tanks, Without(p), valves)
                IN  /\ FlowingOf(Result) = FlowingOf(without)
                    /\ BlockedOf(Result) = BlockedOf(without)

\* a returned result is well formed: numbers and lists, every listed entry a
\* segment of a pipeline of the snapshot with its end points and status
WellFormed(fd) ==
    /\ fd.totalSegments \in Int
    /\ \A k \in 1..Len(fd.segments) :
          LET e == fd.segments[k]
          IN  /\ e.status = "flowing"
              /\ \E p \in PipelineSet :
                    /\ p.id = e.pipelineId
                    /\ e.index \in SegmentsOf(p)
                    /\ e.start = NodeAt(p, e.index)
                    /\ e.end = NodeAt(p, e.index + 1)
    /\ \A k \in 1..Len(fd.blockedSegments) :
          LET e == fd.blockedSegments[k]
          IN  /\ e.status = "blocked"
              /\ \E p \in PipelineSet :
                    /\ p.id = e.pipelineId
                    /\ e.index \in SegmentsOf(p)
                    /\ e.start = NodeAt(p, e.index)
                    /\ e.end = NodeAt(p, e.index + 1)

CheckSegments == {<<Pt(0, 0), Pt(10, 0)>>, <<Pt(10, 0), Pt(20, 0)>>}
\* where the valves sit: 10 m beside the middle of the first segment, 20 m
\* beside it, and 14 m past the end of the first segment
CheckValvePts == {Pt(5, 1), Pt(5, 2), Pt(11, 1)}
CheckValveLists ==
    UNION {{[k \in 1..n |-> ValveAt(k, f[k][1], f[k][2])] :
               f \in [1..n -> CheckValvePts \X BOOLEAN]} : n \in 0..MaxBlockers}

InitCheck ==
    /\ valves \in CheckValveLists
    /\ \E sg \in CheckSegments : checkedStart = sg[1] /\ checkedEnd = sg[2]
    /\ closedValves = <<>>
    /\ checkedValve = <<>>
    /\ segmentStatus = "unchecked"
    /\ tanks = <<>>
    /\ pipelines = <<>>
    /\ NoComputation
    /\ NoSync
    /\ NoRecalc
    /\ NoTankUi
    /\ NoApp

\* const closedValves = gateValveSystem.valves.filter(v => !v.isOpen)
ReadClosedValves ==
    /\ segmentStatus = "unchecked"
    /\ closedValves' = ClosedValvesOf(valves)
    /\ segmentStatus' = "closed valves read"
    /\ UNCHANGED <<checkedStart, checkedEnd, checkedValve>>
    /\ UNCHANGED <<tanks, pipelines, valves, pc, queue, visitedPipelineNodes,
                   visitedSegments, blockedSegments, flowData, iterations,
                   returned>>
    /\ UNCHANGED <<syncVars, recalcVars, uiVars, appVars>>

\* blockingValve = getBlockingValve(...); if (blockingValve) blocked, else
\* flowing
CheckSegment ==
    /\ segmentStatus = "closed valves read"
    /\ checkedValve' = getBlockingValve(checkedStart, checkedEnd, closedValves,
                                        VALVE_BLOCK_DISTANCE)
    /\ segmentStatus' = IF checkedValve' # <<>> THEN "blocked" ELSE "flowing"
    /\ UNCHANGED <<checkedStart, checkedEnd>>
    /\ UNCHANGED engineVars
    /\ UNCHANGED <<syncVars, recalcVars, uiVars, appVars>>

NextCheck == ReadClosedValves \/ CheckSegment

SpecCheck == InitCheck /\ [][NextCheck]_vars

\* the valves of the collection that are closed and within the block
\* distance of the checked segment, by their place in the collection
CheckBlockers ==
    {k \in 1..Len(valves) :
        /\ valves[k].isOpen = FALSE
        /\ Within(distanceToSegment(ValvePoint(valves[k]), checkedStart,
                                    checkedEnd),
                  VALVE_BLOCK_DISTANCE)}

\* C11: getBlockingValve returns the first valve of the collection that is
\* closed and within the block distance of the segment, and null when there
\* is none; the segment is marked blocked only then, so never by a valve
\* with isOpen = true.
C11_FirstClosedValveBlocks ==
    segmentStatus \in {"blocked", "flowing"} =>
        /\ IF CheckBlockers = {} THEN checkedValve = <<>>
           ELSE checkedValve =
                  <<valves[CHOOSE k \in CheckBlockers :
                              \A j \in CheckBlockers : k <= j]>>
        /\ (segmentStatus = "blocked") <=> (CheckBlockers # {})
        /\ checkedValve # <<>> => checkedValve[1].isOpen = FALSE

\* an open valve within the block distance comes first in the collection, a
\* closed one within the block distance after it, and the closed one is
\* returned
C11_Witness ==
    /\ segmentStatus = "blocked"
    /\ Len(valves) = 2
    /\ valves[1].isOpen
    /\ Within(distanceToSegment(ValvePoint(valves[1]), checkedStart,
                                checkedEnd),
              VALVE_BLOCK_DISTANCE)
    /\ checkedValve = <<valves[2]>>

\* ------------------------------------------ tank updates, server to clients
\* PUT /api/tank/:tankId with its debounced broadcast (server), and the
\* clients that toggle tanks and handle tank_updated messages.  Time passes
\* in steps of 100 ms.  Each database call is taken together with its
\* callback, and a timeout that is due runs before anything else does.

\* the PUT requests a client can send: a tank and the isActive it asks for
PutKinds == TankIds \X BOOLEAN

InitSync ==
    /\ dbTanks \in [TankIds -> BOOLEAN]
    /\ putRequests = [r \in PutKinds |-> 0]
    /\ broadcastTimeout = 0
    /\ timers = {}
    /\ timerCount = 0
    /\ sinceUpdate = BROADCAST_DELAY
    /\ bursts = 0
    /\ broadcasts = <<>>
    /\ wsInbox = [c \in Clients |-> <<>>]
    /\ clientTanks = [c \in Clients |-> dbTanks]
    /\ putCount = 0
    /\ tanks = <<>>
    /\ pipelines = <<>>
    /\ valves = <<>>
    /\ closedValves = <<>>
    /\ NoComputation
    /\ NoCheck
    /\ NoRecalc
    /\ NoTankUi
    /\ NoApp

\* toggleTank / toggleTankFromSidebar up to the fetch: the client flips
\* isActive of its tank and sends the new value
SendToggle(c, t) ==
    /\ putCount < MaxPuts
    /\ putCount' = putCount + 1
    /\ clientTanks' = [clientTanks EXCEPT ![c][t] = ~@]
    /\ putRequests' = [putRequests EXCEPT ![<<t, clientTanks'[c][t]>>] = @ + 1]
    /\ UNCHANGED <<dbTanks, broadcastTimeout, timers, timerCount, sinceUpdate,
                   bursts, broadcasts, wsInbox>>
    /\ UNCHANGED <<engineVars, checkVars, recalcVars, uiVars, appVars>>

\* clearTimeout(handle) that is left out
clearTimeout_missing(pending, handle) == pending

\* clearTimeout(handle): the timeout with that handle will not run
clearTimeout(pending, handle) == {x \in pending : x.id # handle}

\* app.put('/api/tank/:tankId'): the row is updated, the pending broadcast
\* is cancelled and a new one is set BROADCAST_DELAY ms ahead
ServePut(t, v) ==
    /\ putRequests[<<t, v>>] > 0
    /\ \A x \in timers : x.due > 0
    /\ putRequests' = [putRequests EXCEPT ![<<t, v>>] = @ - 1]
    /\ dbTanks' = [dbTanks EXCEPT ![t] = v]
    /\ timerCount' = timerCount + 1
    /\ timers' = clearTimeout(timers, broadcastTimeout)
                    \cup {[id |-> timerCount', tankId |-> t,
                           due |-> BROADCAST_DELAY]}
    /\ broadcastTimeout' = timerCount'
    /\ bursts' = IF sinceUpdate >= BROADCAST_DELAY THEN bursts + 1 ELSE bursts
    /\ sinceUpdate' = 0
    /\ UNCHANGED <<broadcasts, wsInbox, clientTanks, putCount>>
    /\ UNCHANGED <<engineVars, checkVars, recalcVars, uiVars, appVars>>

\* 100 ms pass
Tick ==
    /\ \A x \in timers : x.due > 0
    /\ timers # {} \/ sinceUpdate < BROADCAST_DELAY
    /\ timers' = {[x EXCEPT !.due = @ - 100] : x \in timers}
    /\ sinceUpdate' = IF sinceUpdate + 100 >= BROADCAST_DELAY
                        THEN BROADCAST_DELAY ELSE sinceUpdate + 100
    /\ UNCHANGED <<dbTanks, putRequests, broadcastTimeout, timerCount, bursts,
                   broadcasts, wsInbox, clientTanks, putCount>>
    /\ UNCHANGED <<engineVars, checkVars, recalcVars, uiVars, appVars>>

\* the timeout callback: the row is read and broadcast to every client
\* (`after` and `stored` note when it ran and what the table held)
TimerFires(x) ==
    /\ x \in timers
    /\ x.due = 0
    /\ timers' = timers \ {x}
    /\ LET message == [type |-> "tank_updated", tankId |-> x.tankId,
                       isActive |-> dbTanks[x.tankId]]
       IN  /\ wsInbox' = [c \in Clients |-> Append(wsInbox[c], message)]
           /\ broadcasts' = Append(broadcasts,
                                   [message |-> message, after |-> sinceUpdate,
                                    stored |-> dbTanks])
    /\ UNCHANGED <<dbTanks, putRequests, broadcastTimeout, timerCount,
                   sinceUpdate, bursts, clientTanks, putCount>>
    /\ UNCHANGED <<engineVars, checkVars, recalcVars, uiVars, appVars>>

\* ws.onmessage / handleTankUpdate: the client takes over the tank's state
HandleTankUpdate(c) ==
    /\ wsInbox[c] # <<>>
    /\ LET tank == Head(wsInbox[c])
       IN  clientTanks' = [clientTanks EXCEPT ![c][tank.tankId] = tank.isActive]
    /\ wsInbox' = [wsInbox EXCEPT ![c] = Tail(@)]
    /\ UNCHANGED <<dbTanks, putRequests, broadcastTimeout, timers, timerCount,
                   sinceUpdate, bursts, broadcasts, putCount>>
    /\ UNCHANGED <<engineVars, checkVars, recalcVars, uiVars, appVars>>

NextSync ==
    \/ \E c \in Clients, t \in TankIds : SendToggle(c, t)
    \/ \E r \in PutKinds : ServePut(r[1], r[2])
    \/ Tick
    \/ \E x \in timers : TimerFires(x)
    \/ \E c \in Clients : HandleTankUpdate(c)

SpecSync == InitSync /\ [][NextSync]_vars

\* no request is on its way, no broadcast is pending, no message is unread
Quiet ==
    /\ \A r \in PutKinds : putRequests[r] = 0
    /\ timers = {}
    /\ \A c \in Clients : wsInbox[c] = <<>>

\* C16: once the PUT requests have been served and the broadcasts they
\* caused have been sent and handled, every client holds for every tank the
\* isActive that the database holds.
C16_ClientsAgreeWhenQuiet ==
    Quiet => \A c \in Clients : \A t \in TankIds : clientTanks[c][t] = dbTanks[t]

ServerPipelineLists == {WithIds(<<Straight(Pt(0, 0), Pt(10, 0), n)>>) :
                           n \in 2..MaxNodes}

\* the one tank of this client, at the first node of the pipeline
FlowTank == TankAt(1, Pt(0, 0))

\* the line drawn for a segment of the flow data
LayerOf(segment, className) ==
    [className |-> className, pipelineId |-> segment.pipelineId,
     index |-> segment.index]

\* animateWaterFlow pushes a line for each flowing segment and then
\* drawBlockedSegments pushes a line for each blocked segment; with no
\* flowing segment only the blocked lines are pushed
animateWaterFlow(layers, fd) ==
    layers
      \o [k \in 1..Len(fd.segments) |->
             LayerOf(fd.segments[k], "water-flow-line")]
      \o [k \in 1..Len(fd.blockedSegments) |->
             LayerOf(fd.blockedSegments[k], "water-blocked-line")]

\* (x / y * 100).toFixed(1), in tenths of a percent
PercentToFixed1(x, y) == (2000 * x + y) \div (2 * y)

\* updateFlowStatistics: the flowing lines among the layers, against the
\* segments of this.pipelines
updateFlowStatistics(layers, pls) ==
    LET flowingSegments ==
            Len(SelectSeq(layers,
                          LAMBDA l : l.className = "water-flow-line"))
        totalSegments == SumSegments(pls)
    IN  [flowingSegments |-> flowingSegments,
         totalSegments |-> totalSegments,
         coverage |-> IF totalSegments > 0
                      THEN PercentToFixed1(flowingSegments, totalSegments)
                      ELSE 0]

InitRecalc ==
    /\ serverPipelines \in ServerPipelineLists
    /\ tanks \in {<<>>, <<FlowTank>>}
    /\ valves \in {<<ValveAt(1, Pt(15, 0), open)>> : open \in BOOLEAN}
    /\ pipelines = <<>>
    /\ flowLayers = <<>>
    /\ awaiting = 0
    /\ statistics = updateFlowStatistics(<<>>, <<>>)
    /\ triggerCount = 0
    /\ closedValves = <<>>
    /\ NoComputation
    /\ NoCheck
    /\ NoSync
    /\ NoTankUi
    /\ NoApp

\* recalculateAllFlows up to its await, called `calls` times in a row by
\* one handler: stopWaterFlow removes the layers and refreshes the
\* statistics; with no active tank a call returns, else it is left awaiting
\* the pipelines
RecalculateBegins(activeTks, calls) ==
    /\ flowLayers' = <<>>
    /\ statistics' = updateFlowStatistics(<<>>, pipelines)
    /\ awaiting' = IF Len(activeTks) = 0 THEN awaiting ELSE awaiting + calls

\* handleValveUpdate: Object.assign on the valve, then recalculateAllFlows()
handleValveUpdate(open) ==
    /\ triggerCount < MaxTriggers
    /\ triggerCount' = triggerCount + 1
    /\ valves' = [valves EXCEPT ![1].isOpen = open]
    /\ RecalculateBegins(tanks, 1)
    /\ UNCHANGED <<tanks, pipelines, serverPipelines>>
    /\ UNCHANGED <<computationVars, checkVars, syncVars, uiVars, appVars>>

\* the tank is in activeTanks
IsActiveTank(tks, tank) == \E k \in 1..Len(tks) : tks[k].name = tank.name

\* handleTankUpdate: drawTankOnMap pushes the tank onto activeTanks if it is
\* active and not yet there, and then calls recalculateAllFlows(); the
\* handler removes the tank if it is not active, and calls
\* recalculateAllFlows() and updateFlowStatistics()
handleTankUpdate(active) ==
    /\ triggerCount < MaxTriggers
    /\ triggerCount' = triggerCount + 1
    /\ tanks' = IF active
                THEN IF IsActiveTank(tanks, FlowTank)
                     THEN tanks ELSE Append(tanks, FlowTank)
                ELSE SelectSeq(tanks, LAMBDA t : t.name # FlowTank.name)
    /\ RecalculateBegins(tanks',
                         IF active /\ ~IsActiveTank(tanks, FlowTank)
                         THEN 2 ELSE 1)
    /\ UNCHANGED <<valves, pipelines, serverPipelines>>
    /\ UNCHANGED <<computationVars, checkVars, syncVars, uiVars, appVars>>

\* the fetch of one pending call answers: this.pipelines is replaced, the
\* flow is computed from the tanks and valves as they now are, its lines are
\* pushed and the statistics refreshed
FetchResolves ==
    /\ awaiting > 0
    /\ awaiting' = awaiting - 1
    /\ pipelines' = serverPipelines
    /\ flowLayers' = animateWaterFlow(flowLayers,
                        computeMultiTankBFS(tanks, serverPipelines, valves))
    /\ statistics' = updateFlowStatistics(flowLayers', pipelines')
    /\ UNCHANGED <<tanks, valves, serverPipelines, triggerCount>>
    /\ UNCHANGED <<computationVars, checkVars, syncVars, uiVars, appVars>>

NextRecalc ==
    \/ \E open \in BOOLEAN : handleValveUpdate(open)
    \/ \E active \in BOOLEAN : handleTankUpdate(active)
    \/ FetchResolves

SpecRecalc == InitRecalc /\ [][NextRecalc]_vars

\* the flowing lines on the map, as (pipeline, segment) pairs in the order
\* they were pushed
FlowingLayers ==
    LET lines == SelectSeq(flowLayers,
                           LAMBDA l : l.className = "water-flow-line")
    IN  [k \in 1..Len(lines) |-> <<lines[k].pipelineId, lines[k].index>>]

\* C18: when every recalculateAllFlows call has finished, the flowing lines
\* on the map are the flowing segments of one computation on the tanks,
\* valves and pipelines as they now are, each drawn once, and the flowing
\* count shown does not exceed the total (coverage at most 100%).
C18_OneComputationDrawn ==
    (awaiting = 0 /\ triggerCount > 0) =>
        /\ \A j, k \in 1..Len(FlowingLayers) :
              FlowingLayers[j] = FlowingLayers[k] => j = k
        /\ {FlowingLayers[k] : k \in 1..Len(FlowingLayers)} =
              FlowingOf(computeMultiTankBFS(tanks, serverPipelines, valves))
        /\ statistics.flowingSegments <= statistics.totalSegments
        /\ statistics.coverage <= 1000

\* ---------------------------------------------------- the tank lists
\* One client's waterFlowSystem.tanks and waterFlowSystem.activeTanks.  A
\* tank object is in this.tanks (attached) or has been dropped from it by
\* loadTanks or clearTanks (detached); a detached object keeps the isActive
\* it had, since every writer finds its tank through this.tanks.  An
\* operation with a server call is started, and later its fetch resolves or
\* rejects; dbTanks is the server's table.

\* the tank objects of this.tanks, in the order the server lists them
TankOrder == <<"T1", "T2">>

\* a reference to the tank object of this.tanks with this tankId
Attached(t) == [tankId |-> t, detached |-> FALSE, isActive |-> FALSE]

\* this.tanks.find(t => t.tankId === tankId) finds a tank
HasTank(tks, t) == \E k \in 1..Len(tks) : tks[k].tankId = t

\* tank.isActive, read through a reference
IsActiveOf(tks, ref) ==
    IF ref.detached THEN ref.isActive
    ELSE \E k \in 1..Len(tks) : tks[k].tankId = ref.tankId /\ tks[k].isActive

\* the reference after this.tanks has been replaced
Detach(tks, ref) ==
    IF ref.detached THEN ref
    ELSE [ref EXCEPT !.detached = TRUE, !.isActive = IsActiveOf(tks, ref)]

\* the pending operations after this.tanks has been replaced
DetachOps(tks, ops) ==
    {IF o.op = "loadTanks" THEN o ELSE [o EXCEPT !.tank = Detach(tks, o.tank)]
        : o \in ops}

\* tank.isActive = value on the tank of this.tanks with this tankId
SetActive(tks, t, value) ==
    [k \in 1..Len(tks) |->
        IF tks[k].tankId = t THEN [tks[k] EXCEPT !.isActive = value]
        ELSE tks[k]]

\* if (tank.isActive) { if (!activeTanks.find(...)) activeTanks.push(tank) }
\* else activeTanks = activeTanks.filter(t => t.tankId !== tankId)
UpdateActiveTanks(tks, active, ref) ==
    IF IsActiveOf(tks, ref)
    THEN IF HasTank(active, ref.tankId) THEN active ELSE Append(active, ref)
    ELSE SelectSeq(active, LAMBDA a : a.tankId # ref.tankId)

RECURSIVE DrawTanks(_, _, _)
\* this.tanks.forEach(t => this.drawTankOnMap(t)), from the k-th tank on:
\* drawTankOnMap pushes an active tank that is not in activeTanks
DrawTanks(tks, active, k) ==
    IF k > Len(tks) THEN active
    ELSE DrawTanks(tks,
                   IF tks[k].isActive /\ ~HasTank(active, tks[k].tankId)
                   THEN Append(active, Attached(tks[k].tankId)) ELSE active,
                   k + 1)

\* the rows GET /api/tanks answers with
TankRows == [k \in 1..Len(TankOrder) |->
                [tankId |-> TankOrder[k], isActive |-> dbTanks[TankOrder[k]]]]

InitTanks ==
    /\ dbTanks \in [TankIds -> BOOLEAN]
    /\ wfsTanks = <<>>
    /\ activeTanks = <<>>
    /\ pendingOps = {}
    /\ opCount = 0
    /\ putRequests = [r \in {} |-> 0]
    /\ broadcastTimeout = 0
    /\ timers = {}
    /\ timerCount = 0
    /\ sinceUpdate = BROADCAST_DELAY
    /\ bursts = 0
    /\ broadcasts = <<>>
    /\ wsInbox = [c \in {} |-> <<>>]
    /\ clientTanks = [c \in {} |-> <<>>]
    /\ putCount = 0
    /\ tanks = <<>>
    /\ pipelines = <<>>
    /\ valves = <<>>
    /\ closedValves = <<>>
    /\ NoComputation
    /\ NoCheck
    /\ NoRecalc
    /\ NoApp

\* an operation with a server call is started
StartOp(o) ==
    /\ opCount < MaxOps
    /\ opCount' = opCount + 1
    /\ pendingOps' = pendingOps \cup {[id |-> opCount + 1] @@ o}

\* toggleTank / toggleTankFromSidebar up to the await: the tank is looked up
\* in this.tanks, its isActive is flipped and the PUT is sent
StartToggle(op, t) ==
    /\ HasTank(wfsTanks, t)
    /\ LET value == ~IsActiveOf(wfsTanks, Attached(t))
       IN  /\ wfsTanks' = SetActive(wfsTanks, t, value)
           /\ StartOp([op |-> op, tank |-> Attached(t), sent |-> value])
    /\ UNCHANGED <<activeTanks, dbTanks>>
    /\ UNCHANGED <<broadcastVars, engineVars, checkVars, recalcVars, appVars>>

\* the PUT resolves: the server has stored the value sent; activeTanks is
\* updated from tank.isActive as it now is, and toggleTank redraws every tank
ToggleResolves(o) ==
    /\ o \in pendingOps
    /\ o.op \in {"toggleTank", "toggleTankFromSidebar"}
    /\ pendingOps' = pendingOps \ {o}
    /\ dbTanks' = [dbTanks EXCEPT ![o.tank.tankId] = o.sent]
    /\ LET updated == UpdateActiveTanks(wfsTanks, activeTanks, o.tank)
       IN  activeTanks' = IF o.op = "toggleTank"
                          THEN DrawTanks(wfsTanks, updated, 1)
                          ELSE updated
    /\ UNCHANGED <<wfsTanks, opCount>>
    /\ UNCHANGED <<broadcastVars, engineVars, checkVars, recalcVars, appVars>>

\* the fetch of a pending operation rejects: its catch block logs the error
FetchRejects(o) ==
    /\ o \in pendingOps
    /\ pendingOps' = pendingOps \ {o}
    /\ UNCHANGED <<wfsTanks, activeTanks, opCount, dbTanks>>
    /\ UNCHANGED <<broadcastVars, engineVars, checkVars, recalcVars, appVars>>

\* loadTanks up to the await
StartLoad ==
    /\ StartOp([op |-> "loadTanks", tank |-> Attached("none"),
                sent |-> FALSE])
    /\ UNCHANGED <<wfsTanks, activeTanks, dbTanks>>
    /\ UNCHANGED <<broadcastVars, engineVars, checkVars, recalcVars, appVars>>

\* GET /api/tanks resolves: this.tanks = tanks and
\* this.activeTanks = tanks.filter(t => t.isActive)
LoadResolves(o) ==
    /\ o \in pendingOps
    /\ o.op = "loadTanks"
    /\ wfsTanks' = TankRows
    /\ activeTanks' = DrawTanks(TankRows, <<>>, 1)
    /\ pendingOps' = DetachOps(wfsTanks, pendingOps \ {o})
    /\ UNCHANGED <<opCount, dbTanks>>
    /\ UNCHANGED <<broadcastVars, engineVars, checkVars, recalcVars, appVars>>

\* handleTankUpdate for a tank_updated message: Object.assign on the tank of
\* this.tanks, then the tank is pushed onto or filtered out of activeTanks
TankUpdated(t, value) ==
    /\ opCount < MaxOps
    /\ opCount' = opCount + 1
    /\ HasTank(wfsTanks, t)
    /\ wfsTanks' = SetActive(wfsTanks, t, value)
    /\ activeTanks' = UpdateActiveTanks(wfsTanks', activeTanks, Attached(t))
    /\ UNCHANGED <<pendingOps, dbTanks>>
    /\ UNCHANGED <<broadcastVars, engineVars, checkVars, recalcVars, appVars>>

\* clearTanks: this.tanks = [] and this.activeTanks = []
clearTanks ==
    /\ opCount < MaxOps
    /\ opCount' = opCount + 1
    /\ wfsTanks' = <<>>
    /\ activeTanks' = <<>>
    /\ pendingOps' = DetachOps(wfsTanks, pendingOps)
    /\ UNCHANGED dbTanks
    /\ UNCHANGED <<broadcastVars, engineVars, checkVars, recalcVars, appVars>>

NextTanks ==
    \/ \E op \in {"toggleTank", "toggleTankFromSidebar"}, t \in TankIds :
          StartToggle(op, t)
    \/ \E o \in pendingOps : ToggleResolves(o)
    \/ \E o \in pendingOps : FetchRejects(o)
    \/ StartLoad
    \/ \E o \in pendingOps : LoadResolves(o)
    \/ \E t \in TankIds, value \in BOOLEAN : TankUpdated(t, value)
    \/ clearTanks

SpecTanks == InitTanks /\ [][NextTanks]_vars

\* C19: when no tank operation is under way, activeTanks holds exactly the
\* tanks of this.tanks whose isActive is true, each once.
C19_ActiveTanksAreTheActiveOnes ==
    pendingOps = {} =>
        /\ \A k \in 1..Len(activeTanks) : ~activeTanks[k].detached
        /\ \A j, k \in 1..Len(activeTanks) :
              activeTanks[j].tankId = activeTanks[k].tankId => j = k
        /\ {activeTanks[k].tankId : k \in 1..Len(activeTanks)} =
              {wfsTanks[k].tankId : k \in {j \in 1..Len(wfsTanks) :
                                              wfsTanks[j].isActive}}

\* ---------------------------------------------------------- seeding
\* the queue entries the seeding pushed for a tank into a pipeline
SeedsFrom(t, p) ==
    SelectSeq(queue, LAMBDA e : e.sourceTank = t.name /\ e.pipelineId = p.id)

\* C21: right after seeding the queue holds, for each tank and pipeline, at
\* most one entry, and none exactly when no node and no segment of the
\* pipeline is within the connect distance of the tank.
C21_OneSeedPerTankAndPipeline ==
    (pc = "loop" /\ iterations = 0) =>
        \A t \in TankSet : \A p \in PipelineSet :
            /\ Len(SeedsFrom(t, p)) <= 1
            /\ Len(SeedsFrom(t, p)) = 0 <=> ~TankConnects(t, p)

\* ------------------------------------------------------ propagation
\* the entry being processed and the entries the pass pushed
Current == Head(queue)
Pushed == SubSeq(queue', Len(queue), Len(queue'))
\* the pass scans a pipeline: its entry names a stored pipeline and a
\* (pipeline, node) pair not visited before
Processes ==
    /\ LoopIteration
    /\ \E p \in PipelineSet : p.id = Current.pipelineId
    /\ <<Current.pipelineId, Current.nodeIndex>> \notin visitedPipelineNodes
\* no node of the pipeline has been visited
NotYetVisited(q) == \A key \in visitedPipelineNodes : key[1] # q.id
\* node j of q is at least as near to pipeline p as node k of q
NoFartherFrom(p, q, j, k) ==
    /\ \A i \in 0..(Len(ParseNodes(p)) - 1) :
          \E h \in 0..(Len(ParseNodes(p)) - 1) :
             mapDistanceSq(NodeAt(q, j), NodeAt(p, h))
                <= mapDistanceSq(NodeAt(q, k), NodeAt(p, i))
    /\ \A i \in SegmentsOf(p) :
          \E h \in SegmentsOf(p) :
             distanceToSegment(NodeAt(q, j), NodeAt(p, h), NodeAt(p, h + 1))
                <= distanceToSegment(NodeAt(q, k), NodeAt(p, i),
                                     NodeAt(p, i + 1))

\* C22: a pass that processes a pipeline pushes, for every other pipeline
\* that is adjacent to it and not yet visited, exactly one entry: at the
\* node of that pipeline nearest to the processed one, with the sourceTank
\* of the entry processed.
C22_OneEntryPerAdjacentPipeline ==
    [][Processes =>
          \A q \in PipelineSet :
             (/\ q.id # Current.pipelineId
              /\ NotYetVisited(q)
              /\ PipelinesAdjacent(PipelineOf(Current.pipelineId), q)) =>
                LET new == SelectSeq(Pushed, LAMBDA e : e.pipelineId = q.id)
                IN  /\ Len(new) = 1
                    /\ new[1].sourceTank = Current.sourceTank
                    /\ \A k \in 0..(Len(ParseNodes(q)) - 1) :
                          NoFartherFrom(PipelineOf(Current.pipelineId), q,
                                        new[1].nodeIndex, k)]_vars

\* ------------------------------------------------- the projections
\* distanceToSegment (a method of the flow system), distanceToLineSegment
\* and getClosestPointOnSegment (functions of the drawing code) are called
\* with one point and one segment.  param = dot / lenSq is kept as the
\* fraction num/den; a point is kept as (lat/den, lng/den).

\* Math.max(0, Math.min(1, param)) on the fraction
ClampParam_unclamped(num, den) == [num |-> num, den |-> den]

ClampParam(num, den) ==
    IF num > den THEN [num |-> 1, den |-> 1]
    ELSE IF num < 0 THEN [num |-> 0, den |-> 1]
    ELSE [num |-> num, den |-> den]

\* getClosestPointOnSegment(point, segStart, segEnd)
getClosestPointOnSegment(point, segStart, segEnd) ==
    LET A == point.lat - segStart.lat
        B == point.lng - segStart.lng
        C == segEnd.lat - segStart.lat
        D == segEnd.lng - segStart.lng
        dot   == A * C + B * D
        lenSq == C * C + D * D
        param == IF lenSq # 0 THEN ClampParam(dot, lenSq)
                 ELSE ClampParam(-1, 1)
    IN  [lat |-> segStart.lat * param.den + param.num * C,
         lng |-> segStart.lng * param.den + param.num * D,
         den |-> param.den]

\* distanceToLineSegment(point, lineStart, lineEnd), squared
distanceToLineSegment(point, lineStart, lineEnd) ==
    LET A == point.lat - lineStart.lat
        B == point.lng - lineStart.lng
        C == lineEnd.lat - lineStart.lat
        D == lineEnd.lng - lineStart.lng
        dot   == A * C + B * D
        lenSq == C * C + D * D
        num   == IF lenSq # 0 THEN dot ELSE -1
        den   == IF lenSq # 0 THEN lenSq ELSE 1
    IN  IF num < 0
          THEN mapDistanceSqTo(point, lineStart.lat, lineStart.lng, 1)
        ELSE IF num > den
          THEN mapDistanceSqTo(point, lineEnd.lat, lineEnd.lng, 1)
        ELSE mapDistanceSqTo(point, lineStart.lat * den + num * C,
                             lineStart.lng * den + num * D, den)

\* the points of the grid
GridPoints == {Pt(x, y) : x \in 0..MaxCoord, y \in 0..MaxCoord}

InitProjection ==
    /\ projInput \in [point : GridPoints, segStart : GridPoints,
                      segEnd : GridPoints]
    /\ projOutput = <<>>
    /\ BesideProjectionIdle

\* each routine is called once for the input and its result kept
CallDistanceToSegment ==
    /\ "distanceToSegment" \notin DOMAIN projOutput
    /\ projOutput' = projOutput @@
          ("distanceToSegment" :>
              distanceToSegment(projInput.point, projInput.segStart,
                                projInput.segEnd))
    /\ UNCHANGED <<projInput, besideProjection>>

CallDistanceToLineSegment ==
    /\ "distanceToLineSegment" \notin DOMAIN projOutput
    /\ projOutput' = projOutput @@
          ("distanceToLineSegment" :>
              distanceToLineSegment(projInput.point, projInput.segStart,
                                    projInput.segEnd))
    /\ UNCHANGED <<projInput, besideProjection>>

CallGetClosestPointOnSegment ==
    /\ "getClosestPointOnSegment" \notin DOMAIN projOutput
    /\ projOutput' = projOutput @@
          ("getClosestPointOnSegment" :>
              getClosestPointOnSegment(projInput.point, projInput.segStart,
                                       projInput.segEnd))
    /\ UNCHANGED <<projInput, besideProjection>>

NextProjection ==
    \/ CallDistanceToSegment
    \/ CallDistanceToLineSegment
    \/ CallGetClosestPointOnSegment

SpecProjection == InitProjection /\ [][NextProjection]_vars

\* all three routines have returned
Projected ==
    DOMAIN projOutput = {"distanceToSegment", "distanceToLineSegment",
                         "getClosestPointOnSegment"}

\* the point c (a fraction pair) lies on the segment a-b
OnSegment(c, a, b) ==
    LET lo(u, v) == IF u < v THEN u ELSE v
        hi(u, v) == IF u < v THEN v ELSE u
    IN  /\ (c.lat - a.lat * c.den) * (b.lng - a.lng)
             = (c.lng - a.lng * c.den) * (b.lat - a.lat)
        /\ lo(a.lat, b.lat) * c.den <= c.lat
        /\ c.lat <= hi(a.lat, b.lat) * c.den
        /\ lo(a.lng, b.lng) * c.den <= c.lng
        /\ c.lng <= hi(a.lng, b.lng) * c.den

\* C23: for a point and a segment, distanceToSegment and
\* distanceToLineSegment return the same distance, which is the map
\* distance from the point to the point getClosestPointOnSegment returns;
\* that point lies on the segment, and is the segment start when the
\* segment has no length.
C23_ProjectionsAgree ==
    Projected =>
        LET c == projOutput["getClosestPointOnSegment"]
            a == projInput.segStart
            b == projInput.segEnd
        IN  /\ projOutput["distanceToSegment"]
                  = projOutput["distanceToLineSegment"]
            /\ projOutput["distanceToSegment"]
                  = mapDistanceSqTo(projInput.point, c.lat, c.lng, c.den)
            /\ OnSegment(c, a, b)
            /\ a = b => c.lat = a.lat * c.den /\ c.lng = a.lng * c.den

\* a projection that falls strictly inside the segment, between grid points
C23_Witness ==
    /\ Projected
    /\ projInput.segStart = Pt(0, 0)
    /\ projInput.segEnd = Pt(2, 1)
    /\ projInput.point = Pt(1, 2)
    /\ projOutput["getClosestPointOnSegment"].den = 5

\* ------------------------------------------------ closing and opening
\* the valves with valve k closed or opened
WithValve(k, open) == [valves EXCEPT ![k].isOpen = open]
\* one more valve, closed, at each place a valve can sit
MoreValves == {ValveAt(0, pt, FALSE) : pt \in ValvePts}
\* the flowing segments of a computation on the snapshot with valves vs
FlowingWith(vs) == FlowingOf(computeMultiTankBFS(tanks, pipelines, vs))

\* C24: for the tanks and pipelines of the snapshot, closing a valve or
\* adding a closed valve adds no segment to the flowing set, and opening a
\* closed valve removes none.
C24_ClosingNeverAddsFlow ==
    (Done /\ Len(returned) = 1) =>
        /\ \A k \in 1..Len(valves) :
              IF valves[k].isOpen
              THEN FlowingWith(WithValve(k, FALSE)) \subseteq FlowingOf(Result)
              ELSE FlowingOf(Result) \subseteq FlowingWith(WithValve(k, TRUE))
        /\ \A v \in MoreValves :
              FlowingWith(Append(valves, v)) \subseteq FlowingOf(Result)

\* closing the open valve of the snapshot takes flowing segments away, and
\* a second closed valve takes away more
C24_Witness ==
    /\ Done
    /\ Len(returned) = 1
    /\ Len(valves) = 1
    /\ valves[1].isOpen
    /\ FlowingWith(WithValve(1, FALSE)) # FlowingOf(Result)
    /\ \E v \in MoreValves :
          FlowingWith(Append(WithValve(1, FALSE), v))
             # FlowingWith(WithValve(1, FALSE))

\* ------------------------------------------------- the valve table
\* Table gate_valves with the requests that change a row: PATCH
\* /api/valve/:valveId/toggle, whose handler reads the row in one database
\* call and writes it in the next, and the PUT that saveValve sends for a
\* valve being edited.  isOpen is stored as 0 or 1.

ValveIds == {"V1", "V2"}
ValveNames == {"inlet", "outlet"}

InitValves ==
    /\ dbValves \in [ValveIds -> [name : {"inlet"}, isOpen : {0, 1}]]
    /\ valveOriginal = dbValves
    /\ valveRequests = {}
    /\ valveAnswers = <<>>
    /\ BesideValvesIdle

\* the requests made so far
RequestCount == Cardinality(valveRequests) + Len(valveAnswers)

\* toggleValve sends PATCH /api/valve/:valveId/toggle
SendToggleValve(v) ==
    /\ RequestCount < MaxRequests
    /\ valveRequests' = valveRequests \cup
          {[id |-> RequestCount + 1, valveId |-> v, phase |-> "sent",
            row |-> 0]}
    /\ UNCHANGED <<dbValves, valveAnswers, valveOriginal, besideValves>>

\* the callback of SELECT isOpen ... has the row
ToggleSelected(r) ==
    /\ r \in valveRequests
    /\ r.phase = "sent"
    /\ valveRequests' = (valveRequests \ {r}) \cup
          {[r EXCEPT !.phase = "selected", !.row = dbValves[r.valveId].isOpen]}
    /\ UNCHANGED <<dbValves, valveAnswers, valveOriginal, besideValves>>

\* const newState = row.isOpen === 1 ? 0 : 1
NewState(row) == IF row = 1 THEN 0 ELSE 1

\* UPDATE gate_valves SET isOpen = newState is run and the request answered
\* with isOpen: newState === 1
ToggleUpdated(r) ==
    /\ r \in valveRequests
    /\ r.phase = "selected"
    /\ valveRequests' = valveRequests \ {r}
    /\ dbValves' = [dbValves EXCEPT ![r.valveId].isOpen = NewState(r.row)]
    /\ valveAnswers' = Append(valveAnswers,
          [request |-> "toggle", valveId |-> r.valveId,
           isOpen |-> NewState(r.row) = 1,
           before |-> dbValves[r.valveId].isOpen,
           stored |-> dbValves'[r.valveId].isOpen])
    /\ UNCHANGED <<valveOriginal, besideValves>>

\* the body saveValve builds from the valve form: isOpen is always true
ValveData(v, name) == [name |-> name, isOpen |-> TRUE]

\* saveValve with editingValveId = v: PUT /api/valve/v with the form's data,
\* and the server's UPDATE of every field sent
saveValve(v, name) ==
    /\ RequestCount < MaxRequests
    /\ LET valveData == ValveData(v, name)
       IN  dbValves' = [dbValves EXCEPT
                           ![v] = [name |-> valveData.name,
                                   isOpen |-> IF valveData.isOpen THEN 1
                                              ELSE 0]]
    /\ valveAnswers' = Append(valveAnswers,
          [request |-> "put", valveId |-> v, isOpen |-> TRUE,
           before |-> dbValves[v].isOpen, stored |-> dbValves'[v].isOpen])
    /\ UNCHANGED <<valveRequests, valveOriginal, besideValves>>

NextValves ==
    \/ \E v \in ValveIds : SendToggleValve(v)
    \/ \E r \in valveRequests : ToggleSelected(r)
    \/ \E r \in valveRequests : ToggleUpdated(r)
    \/ \E v \in ValveIds, name \in ValveNames : saveValve(v, name)

SpecValves == InitValves /\ [][NextValves]_vars

\* the answers to toggles of valve v
ToggleAnswers(v) ==
    SelectSeq(valveAnswers, LAMBDA a : a.request = "toggle" /\ a.valveId = v)
\* the valve has not been edited
NotEdited(v) ==
    \A k \in 1..Len(valveAnswers) :
        ~(valveAnswers[k].request = "put" /\ valveAnswers[k].valveId = v)

\* C25: for a valve that only toggles have changed, every answered toggle
\* inverted the stored isOpen and reported the value it stored; when all its
\* toggles have been answered, an even number of them leaves the original
\* isOpen stored and an odd number the inverse.
C25_TogglesInvert ==
    \A v \in {w \in ValveIds : NotEdited(w)} :
        /\ \A k \in 1..Len(ToggleAnswers(v)) :
              /\ ToggleAnswers(v)[k].stored # ToggleAnswers(v)[k].before
              /\ ToggleAnswers(v)[k].isOpen = (ToggleAnswers(v)[k].stored = 1)
        /\ (\A r \in valveRequests : r.valveId # v) =>
              dbValves[v].isOpen =
                 IF Len(ToggleAnswers(v)) % 2 = 0
                 THEN valveOriginal[v].isOpen
                 ELSE 1 - valveOriginal[v].isOpen

\* C28: saving an edited valve leaves its stored isOpen as it was.
C28_EditKeepsIsOpen ==
    [][\A v \in ValveIds :
          (\E name \in ValveNames : saveValve(v, name)) =>
              dbValves'[v].isOpen = dbValves[v].isOpen]_vars

\* ------------------------------------------------- deleting a tank
\* The server's tank rows, the WebSocket messages it broadcasts and the
\* clients' handling of them, with DELETE /api/tank/:tankId.  dbTanks and
\* clientTanks[c] hold isActive of the tanks that exist there.  The
\* broadcast of an update is taken together with the PUT that caused it.

\* the rows without tank t
WithoutTank(rows, t) == [x \in DOMAIN rows \ {t} |-> rows[x]]

InitDelete ==
    /\ dbTanks \in [TankIds -> BOOLEAN]
    /\ clientTanks = [c \in Clients |-> dbTanks]
    /\ wsInbox = [c \in Clients |-> <<>>]
    /\ broadcasts = <<>>
    /\ putRequests = <<>>
    /\ broadcastTimeout = 0
    /\ timers = {}
    /\ timerCount = 0
    /\ sinceUpdate = BROADCAST_DELAY
    /\ bursts = 0
    /\ putCount = 0
    /\ tanks = <<>>
    /\ pipelines = <<>>
    /\ valves = <<>>
    /\ closedValves = <<>>
    /\ NoComputation
    /\ NoCheck
    /\ NoRecalc
    /\ NoTankUi
    /\ NoApp

\* broadcastToAll(data): the message is sent to every connected client
broadcastToAll(data) ==
    /\ wsInbox' = [c \in Clients |-> Append(wsInbox[c], data)]
    /\ broadcasts' = Append(broadcasts, data)

\* deleteTank(tankId) of client c: DELETE /api/tank/:tankId removes the row
\* and broadcasts tank_deleted; the client then reloads its tanks
deleteTank(c, t) ==
    /\ Len(broadcasts) < MaxBroadcasts
    /\ t \in DOMAIN clientTanks[c]
    /\ dbTanks' = WithoutTank(dbTanks, t)
    /\ broadcastToAll([type |-> "tank_deleted", tankId |-> t])
    /\ clientTanks' = [clientTanks EXCEPT ![c] = dbTanks']
    /\ UNCHANGED <<putRequests, broadcastTimeout, timers, timerCount,
                   sinceUpdate, bursts, putCount>>
    /\ UNCHANGED <<engineVars, checkVars, recalcVars, uiVars, appVars>>

\* PUT /api/tank/:tankId with isActive = value and its broadcast: the row is
\* read back and, if there is one, sent as tank_updated
PutTank(t, value) ==
    /\ Len(broadcasts) < MaxBroadcasts
    /\ t \in DOMAIN dbTanks
    /\ dbTanks' = [dbTanks EXCEPT ![t] = value]
    /\ broadcastToAll([type |-> "tank_updated", tankId |-> t,
                       isActive |-> value])
    /\ UNCHANGED <<clientTanks, putRequests, broadcastTimeout, timers,
                   timerCount, sinceUpdate, bursts, putCount>>
    /\ UNCHANGED <<engineVars, checkVars, recalcVars, uiVars, appVars>>

\* ws.onmessage of client c: tank_updated goes to handleTankUpdate, which
\* updates the tank if the client has it; valve_updated goes to
\* handleValveUpdate; a message of any other type is dropped
onmessage(c) ==
    /\ wsInbox[c] # <<>>
    /\ wsInbox' = [wsInbox EXCEPT ![c] = Tail(@)]
    /\ LET data == Head(wsInbox[c])
       IN  clientTanks' =
              IF data.type = "tank_updated"
                 /\ data.tankId \in DOMAIN clientTanks[c]
              THEN [clientTanks EXCEPT ![c][data.tankId] = data.isActive]
              ELSE clientTanks
    /\ UNCHANGED <<dbTanks, broadcasts, putRequests, broadcastTimeout, timers,
                   timerCount, sinceUpdate, bursts, putCount>>
    /\ UNCHANGED <<engineVars, checkVars, recalcVars, uiVars, appVars>>

NextDelete ==
    \/ \E c \in Clients, t \in TankIds : deleteTank(c, t)
    \/ \E t \in TankIds, value \in BOOLEAN : PutTank(t, value)
    \/ \E c \in Clients : onmessage(c)

\* a message that has arrived is handled: the browser runs the handler of
\* every message event
SpecDelete ==
    /\ InitDelete
    /\ [][NextDelete]_vars
    /\ \A c \in Clients : WF_vars(onmessage(c))

\* C26: once a tank has been deleted on the server (and tank_deleted
\* broadcast), every client eventually no longer holds the tank.
C26_DeletedTankLeavesClients ==
    \A c \in Clients : \A t \in TankIds :
        (t \notin DOMAIN dbTanks) ~> (t \notin DOMAIN clientTanks[c])

\* ------------------------------------------------ the sensor streams
\* GET /api/stream/device/:deviceId: the response is added to the device's
\* clients at once, the tank of the device is looked up in the database,
\* and the callback of the lookup starts the Firebase listener; the close
\* handler of the request removes the response and, with the last one, the
\* listener.  Maps are functions on the keys they hold.

\* the devices asked for: one that a tank has, and one that no tank has
Devices == {"D1", "D2"}
DevicesWithTank == {"D1"}

\* map.delete(key)
MapDelete(m, key) == [k \in DOMAIN m \ {key} |-> m[k]]
\* sseClients.get(deviceId) || []
ClientsOf(d) == IF d \in DOMAIN sseClients THEN sseClients[d] ELSE <<>>

InitStream ==
    /\ NoStream
    /\ BesideStreamIdle

\* a client connects: sseClients.get(deviceId).push(res), db.get is issued
Connect(d) ==
    /\ connectCount < MaxConnects
    /\ connectCount' = connectCount + 1
    /\ sseClients' = (d :> Append(ClientsOf(d), connectCount')) @@ sseClients
    /\ pendingLookups' = pendingLookups \cup
                            {[res |-> connectCount', deviceId |-> d]}
    /\ UNCHANGED <<firebaseListeners, registeredListeners, besideStream>>

\* the callback of the tank lookup: if (tank) startRealtimeListener, which
\* returns if firebaseListeners has the device and else registers a
\* listener and keeps it in the map
LookupReturns(l) ==
    /\ l \in pendingLookups
    /\ pendingLookups' = pendingLookups \ {l}
    /\ IF l.deviceId \in DevicesWithTank
          /\ l.deviceId \notin DOMAIN firebaseListeners
       THEN /\ registeredListeners' = registeredListeners \cup {l}
            /\ firebaseListeners' = (l.deviceId :> l) @@ firebaseListeners
       ELSE UNCHANGED <<registeredListeners, firebaseListeners>>
    /\ UNCHANGED <<sseClients, connectCount, besideStream>>

\* req.on('close'): the response is spliced out; when none is left the
\* device is deleted from sseClients and stopRealtimeListener takes the
\* listener, if the map has one, off and out of the map
Close(d, res) ==
    /\ \E k \in 1..Len(ClientsOf(d)) : ClientsOf(d)[k] = res
    /\ LET clients == SelectSeq(ClientsOf(d), LAMBDA x : x # res)
       IN  IF Len(clients) = 0
           THEN /\ sseClients' = MapDelete(sseClients, d)
                /\ IF d \in DOMAIN firebaseListeners
                   THEN /\ registeredListeners' =
                              registeredListeners \ {firebaseListeners[d]}
                        /\ firebaseListeners' = MapDelete(firebaseListeners, d)
                   ELSE UNCHANGED <<registeredListeners, firebaseListeners>>
           ELSE /\ sseClients' = [sseClients EXCEPT ![d] = clients]
                /\ UNCHANGED <<registeredListeners, firebaseListeners>>
    /\ UNCHANGED <<pendingLookups, connectCount, besideStream>>

NextStream ==
    \/ \E d \in Devices : Connect(d)
    \/ \E l \in [res : 1..MaxConnects, deviceId : Devices] : LookupReturns(l)
    \/ \E d \in Devices, res \in 1..MaxConnects : Close(d, res)

SpecStream == InitStream /\ [][NextStream]_vars

\* C27: a device never has more than one listener registered, and a device
\* whose clients have all disconnected and whose lookups have all called
\* back has no entry in firebaseListeners and no listener registered.
C27_ListenerOnlyWhileSubscribed ==
    \A d \in Devices :
        /\ Cardinality({l \in registeredListeners : l.deviceId = d}) <= 1
        /\ (/\ ClientsOf(d) = <<>>
            /\ \A l \in pendingLookups : l.deviceId # d) =>
              /\ d \notin DOMAIN firebaseListeners
              /\ \A l \in registeredListeners : l.deviceId # d

\* ------------------------------------------------------ the tank form
\* A tank is edited through the tank form: editTank fills the form and sets
\* editingTankId, the submit handler builds tankData from the form and PUTs
\* it, and PUT /api/tank/:tankId writes every key of the body but tankId.
\* Next to it the toggle writes isActive and the sensor writes waterLevel.

\* editingTankId = null
NoTank == ""
TankNames == {"north", "south"}

InitTankForm ==
    /\ tankRows = [t \in TankIds |->
                     [name |-> "north", waterLevel |-> 0, isActive |-> FALSE]]
    /\ editingTankId = NoTank
    /\ BesideFormIdle

\* app.put('/api/tank/:tankId'): each key of the body is set in the row
PutTankRow(t, body) ==
    tankRows' = [tankRows EXCEPT ![t] =
                    [k \in DOMAIN tankRows[t] |->
                        IF k \in DOMAIN body THEN body[k] ELSE tankRows[t][k]]]

\* editTank(tank): the form is opened for the tank
editTank(t) ==
    /\ editingTankId' = t
    /\ UNCHANGED <<tankRows, besideForm>>

\* the cancel button of the tank form
CancelTankForm ==
    /\ editingTankId # NoTank
    /\ editingTankId' = NoTank
    /\ UNCHANGED <<tankRows, besideForm>>

\* tankData of the submit handler, with the name typed into the form
TankData(name) == [name |-> name, waterLevel |-> 0, isActive |-> FALSE]

\* the submit handler with editingTankId set: PUT of tankData, then
\* editingTankId = null
SubmitTankForm(name) ==
    /\ editingTankId # NoTank
    /\ PutTankRow(editingTankId, TankData(name))
    /\ editingTankId' = NoTank
    /\ UNCHANGED besideForm

\* toggleTank(tankId): PUT of { isActive: !tank.isActive }
ToggleTankRow(t) ==
    /\ PutTankRow(t, [isActive |-> ~tankRows[t].isActive])
    /\ UNCHANGED <<editingTankId, besideForm>>

\* the sensor reading of the tank's device: UPDATE tanks SET waterLevel
SensorWrites(t, level) ==
    /\ tankRows' = [tankRows EXCEPT ![t].waterLevel = level]
    /\ UNCHANGED <<editingTankId, besideForm>>

NextTankForm ==
    \/ \E t \in TankIds : editTank(t)
    \/ CancelTankForm
    \/ \E name \in TankNames : SubmitTankForm(name)
    \/ \E t \in TankIds : ToggleTankRow(t)
    \/ \E t \in TankIds, level \in 0..MaxLevel : SensorWrites(t, level)

SpecTankForm == InitTankForm /\ [][NextTankForm]_vars

\* C29: a step that ends the editing of a tank (submit with editingTankId
\* set) leaves isActive and waterLevel of the tank's row as they were.
C29_EditKeepsActiveAndLevel ==
    [][\A t \in TankIds :
          (editingTankId = t /\ editingTankId' = NoTank) =>
              /\ tankRows'[t].isActive = tankRows[t].isActive
              /\ tankRows'[t].waterLevel = tankRows[t].waterLevel]_vars

\* ------------------------------------------------ the client WebSocket
\* connectWebSocket makes a socket unless the one ws refers to is open; the
\* handlers of every socket made share reconnectAttempts.  A socket that ws
\* no longer refers to keeps its handlers until it has closed.

ReconnectAllowed_upTo(n) == n <= MAX_RECONNECT
\* if (reconnectAttempts < MAX_RECONNECT)
ReconnectAllowed(n) == n < MAX_RECONNECT

InitSocket ==
    /\ NoSocket
    /\ BesideSocketIdle

\* connectWebSocket(): returns if ws is open, else ws = new WebSocket(...)
connectWebSocket ==
    IF ws = "OPEN"
    THEN UNCHANGED <<ws, olderSockets>>
    ELSE /\ ws' = "CONNECTING"
         /\ olderSockets' =
               IF ws = "CONNECTING"
               THEN [olderSockets EXCEPT !.CONNECTING = @ + 1]
               ELSE olderSockets

\* ws.onopen
onopen ==
    /\ reconnectAttempts' = 0
    /\ closesSinceOpen' = 0
    /\ UNCHANGED <<reconnectTimers, debugConnects, besideSocket>>

\* ws.onclose
onclose ==
    /\ closesSinceOpen' = closesSinceOpen + 1
    /\ IF ReconnectAllowed(reconnectAttempts)
       THEN /\ reconnectAttempts' = reconnectAttempts + 1
            /\ reconnectTimers' =
                  Append(reconnectTimers, RECONNECT_STEP * reconnectAttempts')
       ELSE UNCHANGED <<reconnectAttempts, reconnectTimers>>
    /\ UNCHANGED <<debugConnects, besideSocket>>

\* the page has loaded: the first connectWebSocket()
DOMContentLoaded ==
    /\ ws = "none"
    /\ connectWebSocket
    /\ UNCHANGED <<reconnectAttempts, reconnectTimers, closesSinceOpen,
                   debugConnects, besideSocket>>

\* wsDebug.connect()
DebugConnect ==
    /\ ws # "none"
    /\ debugConnects < MaxDebugConnects
    /\ debugConnects' = debugConnects + 1
    /\ connectWebSocket
    /\ UNCHANGED <<reconnectAttempts, reconnectTimers, closesSinceOpen,
                   besideSocket>>

\* a reconnect timer runs out: connectWebSocket()
ReconnectFires(k) ==
    /\ k \in 1..Len(reconnectTimers)
    /\ reconnectTimers' = [j \in 1..(Len(reconnectTimers) - 1) |->
                             IF j < k THEN reconnectTimers[j]
                                      ELSE reconnectTimers[j + 1]]
    /\ connectWebSocket
    /\ UNCHANGED <<reconnectAttempts, closesSinceOpen, debugConnects,
                   besideSocket>>

\* the socket ws refers to opens
WsOpens ==
    /\ ws = "CONNECTING"
    /\ ws' = "OPEN"
    /\ onopen
    /\ UNCHANGED olderSockets

\* the socket ws refers to closes (the connection fails or is lost)
WsCloses ==
    /\ ws \in {"CONNECTING", "OPEN"}
    /\ ws' = "CLOSED"
    /\ onclose
    /\ UNCHANGED olderSockets

\* a socket ws no longer refers to opens
OlderOpens ==
    /\ olderSockets.CONNECTING > 0
    /\ olderSockets' = [CONNECTING |-> olderSockets.CONNECTING - 1,
                        OPEN |-> olderSockets.OPEN + 1]
    /\ onopen
    /\ UNCHANGED ws

\* a socket ws no longer refers to closes
OlderCloses(readyState) ==
    /\ olderSockets[readyState] > 0
    /\ olderSockets' = [olderSockets EXCEPT ![readyState] = @ - 1]
    /\ onclose
    /\ UNCHANGED ws

NextSocket ==
    \/ DOMContentLoaded
    \/ DebugConnect
    \/ \E k \in 1..(MaxDebugConnects + 1) : ReconnectFires(k)
    \/ WsOpens
    \/ WsCloses
    \/ OlderOpens
    \/ \E readyState \in {"CONNECTING", "OPEN"} : OlderCloses(readyState)

SpecSocket == InitSocket /\ [][NextSocket]_vars

\* the sockets that are open
OpenSockets == olderSockets.OPEN + (IF ws = "OPEN" THEN 1 ELSE 0)

\* C30: reconnectAttempts never exceeds MAX_RECONNECT; the n-th close in a
\* row without an open between, for n up to MAX_RECONNECT, schedules one
\* reconnect, RECONNECT_STEP * n ms later; a close after MAX_RECONNECT
\* closes in a row schedules none; an open sets reconnectAttempts to 0.
C30_ReconnectsAreCapped ==
    [][/\ reconnectAttempts' <= MAX_RECONNECT
       /\ (closesSinceOpen' = closesSinceOpen + 1) =>
             IF closesSinceOpen < MAX_RECONNECT
             THEN reconnectTimers' =
                     Append(reconnectTimers, RECONNECT_STEP * closesSinceOpen')
             ELSE reconnectTimers' = reconnectTimers
       /\ (OpenSockets' > OpenSockets) => reconnectAttempts' = 0]_vars

\* the close after MAX_RECONNECT closes in a row has scheduled nothing
C30_Witness ==
    /\ closesSinceOpen = MAX_RECONNECT + 1
    /\ reconnectAttempts = MAX_RECONNECT
    /\ reconnectTimers = <<>>

\* ----------------------------------------------- the live sensor manager
\* LiveSensorManager keeps one EventSource per device in activeStreams and
\* the samples of the chart in chartData.  A sample is the timestamp of its
\* reading; the k-th row of sensor_data_history has timestamp k.  Readings
\* are stored, and sent to streams, for the device that has a tank.

\* the smaller of two numbers
Least(m, n) == IF m < n THEN m ELSE n

\* the rows stored when the client starts: none, or nearly a chart full
InitSensor ==
    /\ eventSources = <<>>
    /\ activeStreams = <<>>
    /\ retryTimers = [d \in Devices |-> 0]
    /\ chartData = <<>>
    /\ sensorRows \in {0, CHART_LIMIT - 1}
    /\ sampleCount = 0
    /\ errorCount = 0
    /\ BesideSensorIdle

\* the EventSources of device d that are not closed
LiveSources(d) ==
    {k \in 1..Len(eventSources) :
        /\ eventSources[k].deviceId = d
        /\ eventSources[k].readyState # "CLOSED"}

\* connectToDevice(deviceId): returns if activeStreams has the device, else
\* makes an EventSource and keeps it in activeStreams
connectToDevice(d) ==
    IF d \in DOMAIN activeStreams
    THEN UNCHANGED <<eventSources, activeStreams>>
    ELSE /\ eventSources' = Append(eventSources,
                               [deviceId |-> d, readyState |-> "CONNECTING"])
         /\ activeStreams' = (d :> Len(eventSources')) @@ activeStreams

\* the sidebar of a tank of device d is opened
OpenSidebar(d) ==
    /\ Len(eventSources) < MaxSources
    /\ connectToDevice(d)
    /\ UNCHANGED <<retryTimers, chartData, sensorRows, sampleCount, errorCount,
                   besideSensor>>

\* disconnectFromDevice(deviceId)
disconnectFromDevice(d) ==
    /\ d \in DOMAIN activeStreams
    /\ eventSources' = [eventSources EXCEPT
                           ![activeStreams[d]].readyState = "CLOSED"]
    /\ activeStreams' = MapDelete(activeStreams, d)
    /\ UNCHANGED <<retryTimers, chartData, sensorRows, sampleCount, errorCount,
                   besideSensor>>

\* the connection of EventSource k is made
SourceOpens(k) ==
    /\ k \in 1..Len(eventSources)
    /\ eventSources[k].readyState = "CONNECTING"
    /\ eventSources' = [eventSources EXCEPT ![k].readyState = "OPEN"]
    /\ UNCHANGED <<activeStreams, retryTimers, chartData, sensorRows,
                   sampleCount, errorCount, besideSensor>>

\* eventSource.onerror of EventSource k: the browser has either closed the
\* EventSource (fatal) or is connecting again; the handler sets the retry
\* timer
SourceErrors(k, fatal) ==
    /\ k \in 1..Len(eventSources)
    /\ eventSources[k].readyState # "CLOSED"
    /\ errorCount < MaxErrors
    /\ errorCount' = errorCount + 1
    /\ eventSources' = [eventSources EXCEPT ![k].readyState =
                           IF fatal THEN "CLOSED" ELSE "CONNECTING"]
    /\ retryTimers' = [retryTimers EXCEPT ![eventSources[k].deviceId] = @ + 1]
    /\ UNCHANGED <<activeStreams, chartData, sensorRows, sampleCount,
                   besideSensor>>

\* a retry timer of device d runs out: connectToDevice(deviceId, ...)
RetryFires(d) ==
    /\ retryTimers[d] > 0
    /\ retryTimers' = [retryTimers EXCEPT ![d] = @ - 1]
    /\ connectToDevice(d)
    /\ UNCHANGED <<chartData, sensorRows, sampleCount, errorCount, besideSensor>>

\* this.chartData.get(deviceId) of getChartData
getChartData(d) == IF d \in DOMAIN chartData THEN chartData[d] ELSE <<>>

\* eventSource.onmessage: history.push(data), and history.shift() when it
\* has more than CHART_LIMIT samples
PushSample(history, data) ==
    LET pushed == Append(history, data)
    IN  IF Len(pushed) > CHART_LIMIT THEN Tail(pushed) ELSE pushed

\* onmessage of n EventSources of one device
RECURSIVE PushSamples(_, _, _)
PushSamples(history, data, n) ==
    IF n = 0 THEN history
    ELSE PushSamples(PushSample(history, data), data, n - 1)

\* a reading of the device with a tank: the server stores the row and
\* writes it to the streams of the device that are open
SensorReading(d) ==
    /\ d \in DevicesWithTank
    /\ sampleCount < MaxSamples
    /\ sampleCount' = sampleCount + 1
    /\ sensorRows' = sensorRows + 1
    /\ LET open == {k \in LiveSources(d) : eventSources[k].readyState = "OPEN"}
       IN  chartData' =
              IF open = {} THEN chartData
              ELSE (d :> PushSamples(getChartData(d), sensorRows',
                                     Cardinality(open))) @@ chartData
    /\ UNCHANGED <<eventSources, activeStreams, retryTimers, errorCount,
                   besideSensor>>

\* GET /api/sensor/device/:deviceId/history: the rows of the device,
\* newest first (ORDER BY timestamp DESC), HISTORY_LIMIT at most
HistoryRows(d) ==
    IF d \in DevicesWithTank
    THEN [i \in 1..Least(sensorRows, HISTORY_LIMIT) |-> sensorRows + 1 - i]
    ELSE <<>>

\* fetchHistory(deviceId): chartData.set(deviceId, history.slice(0, 50))
fetchHistory(d) ==
    /\ chartData' = (d :> SubSeq(HistoryRows(d), 1,
                                 Least(Len(HistoryRows(d)), CHART_LIMIT)))
                    @@ chartData
    /\ UNCHANGED <<eventSources, activeStreams, retryTimers, sensorRows,
                   sampleCount, errorCount, besideSensor>>

NextSensor ==
    \/ \E d \in Devices : OpenSidebar(d)
    \/ \E d \in Devices : disconnectFromDevice(d)
    \/ \E k \in 1..MaxSources : SourceOpens(k)
    \/ \E k \in 1..MaxSources, fatal \in BOOLEAN : SourceErrors(k, fatal)
    \/ \E d \in Devices : RetryFires(d)
    \/ \E d \in Devices : SensorReading(d)
    \/ \E d \in Devices : fetchHistory(d)

SpecSensor == InitSensor /\ [][NextSensor]_vars

\* C31: when a retry timer of a device runs out while the EventSource that
\* activeStreams holds for the device is closed, the device has an
\* EventSource that is open or connecting afterwards.
C31_RetryReconnects ==
    [][\A d \in Devices :
          (/\ retryTimers'[d] < retryTimers[d]
           /\ d \in DOMAIN activeStreams
           /\ eventSources[activeStreams[d]].readyState = "CLOSED") =>
              \E k \in 1..Len(eventSources') :
                  /\ eventSources'[k].deviceId = d
                  /\ eventSources'[k].readyState # "CLOSED"]_vars

\* C32: every chart has at most CHART_LIMIT samples, in the order of their
\* timestamps (oldest first), and no device has more than one EventSource
\* that is not closed.
C32_ChartIsRecentAndOrdered ==
    \A d \in Devices :
        /\ Len(getChartData(d)) <= CHART_LIMIT
        /\ \A i, j \in 1..Len(getChartData(d)) :
              i < j => getChartData(d)[i] < getChartData(d)[j]
        /\ Cardinality(LiveSources(d)) <= 1

\* ------------------------------------------------- the tools of the map
\* The toolbar switches the pen, the eraser, tank placing and valve placing
\* on and off; two handlers of the map's click event act on them.  One
\* pipeline (id 1) is saved; its nodes lie on a line, 60 m apart.  null of
\* a variable that holds a number or a point is Null, a value x is <<x>>.

Null == <<>>
\* !x of a variable holding null or an index: null and 0 are falsy
Falsy(x) == x = Null \/ x = <<0>>

\* the pipelines that can be saved when the client starts
StartPipelines == {Straight(Pt(0, 0), Pt(6, 0), n) : n \in {1, MaxNodes}}
\* the places clicked on the map: at and beside the nodes, and far away
ClickPoints ==
    {Pt(6 * k, 0) : k \in 0..(MaxNodes - 1)} \cup {Pt(2, 1), Pt(0, 12)}
\* what is typed into the fields of the valve form, trimmed
ValveFormTexts == {"", "GV1"}

InitMap ==
    /\ isDrawing = FALSE
    /\ isErasing = FALSE
    /\ isAddingTank = FALSE
    /\ valveAddMode = FALSE
    /\ selectedPipelineId = 0
    /\ eraserStartNode = Null
    /\ eraserEndNode = Null
    /\ savedNodes \in StartPipelines
    /\ drawnNodes = <<>>
    /\ tempTankMarker = FALSE
    /\ tempValveMarker = FALSE
    /\ valveMarkerPosition = Null
    /\ editingValveId = ""
    /\ valveForm = [valveId |-> "", name |-> ""]
    /\ eraseClicks = <<>>
    /\ eraseCalls = <<>>
    /\ clickHandlers = {}
    /\ valveSends = <<>>
    /\ submitCount = 0
    /\ BesideMapIdle

\* the variables of the eraser
eraserVars == <<eraserStartNode, eraserEndNode, eraseClicks, eraseCalls>>
\* the variables of the valve form
valveFormVars == <<tempValveMarker, valveMarkerPosition, editingValveId, valveForm,
                   valveSends, submitCount>>

\* drawBtn click
drawBtn ==
    /\ isDrawing' = ~isDrawing
    /\ isErasing' = FALSE
    /\ isAddingTank' = FALSE
    /\ UNCHANGED <<valveAddMode, selectedPipelineId, eraserVars, savedNodes,
                   drawnNodes, tempTankMarker, valveFormVars, clickHandlers,
                   besideMap>>

\* eraseBtn click
eraseBtn ==
    /\ selectedPipelineId # 0
    /\ Len(eraseCalls) < MaxErases
    /\ isErasing' = ~isErasing
    /\ isDrawing' = FALSE
    /\ isAddingTank' = FALSE
    /\ eraserStartNode' = Null
    /\ eraserEndNode' = Null
    /\ eraseClicks' = <<>>
    /\ UNCHANGED <<valveAddMode, selectedPipelineId, eraseCalls, savedNodes,
                   drawnNodes, tempTankMarker, valveFormVars, clickHandlers,
                   besideMap>>

\* addTankBtn click
addTankBtn ==
    /\ isAddingTank' = ~isAddingTank
    /\ isDrawing' = FALSE
    /\ isErasing' = FALSE
    /\ tempTankMarker' = (isAddingTank' /\ tempTankMarker)
    /\ UNCHANGED <<valveAddMode, selectedPipelineId, eraserVars, savedNodes,
                   drawnNodes, valveFormVars, clickHandlers, besideMap>>

\* addValveBtn click
addValveBtn ==
    /\ valveAddMode' = TRUE
    /\ UNCHANGED <<isDrawing, isErasing, isAddingTank, selectedPipelineId,
                   eraserVars, savedNodes, drawnNodes, tempTankMarker,
                   valveFormVars, clickHandlers, besideMap>>

\* selectPipeline(1)
selectPipeline ==
    /\ selectedPipelineId' = 1
    /\ UNCHANGED <<isDrawing, isErasing, isAddingTank, valveAddMode,
                   eraserVars, savedNodes, drawnNodes, tempTankMarker,
                   valveFormVars, clickHandlers, besideMap>>

\* editPipeline(1): clearDrawing(), nodes = [...pipelineNodes],
\* isDrawing = true
editPipeline ==
    /\ drawnNodes' = savedNodes
    /\ isDrawing' = TRUE
    /\ UNCHANGED <<isErasing, isAddingTank, valveAddMode, selectedPipelineId,
                   eraserVars, savedNodes, tempTankMarker, valveFormVars,
                   clickHandlers, besideMap>>

\* the loop of handleErasing from node i (0-based) on: the index of the node
\* closest to the click among those nearer than SNAP_DISTANCE * 2, the first
\* of equally close ones; minDist < 0 stands for Infinity
RECURSIVE ClosestNodeFrom(_, _, _, _, _)
ClosestNodeFrom(clickPoint, pipelineNodes, i, minDist, closest) ==
    IF i >= Len(pipelineNodes) THEN closest
    ELSE LET dist == mapDistanceSq(clickPoint, pipelineNodes[i + 1])
         IN  IF (minDist < 0 \/ dist < minDist)
                /\ Within(dist, SNAP_DISTANCE * 2)
             THEN ClosestNodeFrom(clickPoint, pipelineNodes, i + 1, dist, i)
             ELSE ClosestNodeFrom(clickPoint, pipelineNodes, i + 1, minDist,
                                  closest)

closestNodeIndex(clickPoint, pipelineNodes) ==
    ClosestNodeFrom(clickPoint, pipelineNodes, 0, -1, -1)

\* newNodes of eraseSection: pipelineNodes.slice(0, start + 1) followed by
\* pipelineNodes.slice(end)
newNodes(pipelineNodes, startIdx, endIdx) ==
    LET start == Least(startIdx, endIdx)
        end   == IF startIdx > endIdx THEN startIdx ELSE endIdx
    IN  SubSeq(pipelineNodes, 1, start + 1)
        \o SubSeq(pipelineNodes, end + 1, Len(pipelineNodes))

\* eraseSection(pipeline, startIdx, endIdx), with the PUT answered and the
\* pipelines loaded again
eraseSection(startIdx, endIdx) ==
    LET sentNodes == newNodes(savedNodes, startIdx, endIdx)
    IN  IF Len(sentNodes) < 2
        THEN /\ eraserStartNode' = Null
             /\ eraserEndNode' = Null
             /\ eraseCalls' = Append(eraseCalls,
                   [nodes |-> savedNodes, startIdx |-> startIdx,
                    endIdx |-> endIdx, sent |-> Null])
             /\ UNCHANGED <<isErasing, savedNodes>>
        ELSE /\ isErasing' = FALSE
             /\ eraserStartNode' = Null
             /\ eraserEndNode' = Null
             /\ savedNodes' = sentNodes
             /\ eraseCalls' = Append(eraseCalls,
                   [nodes |-> savedNodes, startIdx |-> startIdx,
                    endIdx |-> endIdx, sent |-> <<sentNodes>>])

\* handleErasing(e)
handleErasing(clickPoint) ==
    LET closest == closestNodeIndex(clickPoint, savedNodes)
    IN  IF selectedPipelineId = 0 \/ closest = -1
        THEN UNCHANGED <<isErasing, eraserVars, savedNodes>>
        ELSE /\ eraseClicks' = IF Len(eraseClicks) < 2
                               THEN Append(eraseClicks, closest)
                               ELSE eraseClicks
             /\ IF Falsy(eraserStartNode)
                THEN /\ eraserStartNode' = <<closest>>
                     /\ UNCHANGED <<isErasing, eraserEndNode, eraseCalls,
                                    savedNodes>>
                ELSE eraseSection(eraserStartNode[1], closest)

\* handleTankPlacement(e)
handleTankPlacement ==
    /\ tempTankMarker' = TRUE
    /\ isAddingTank' = FALSE

\* the node that a click with the pen adds: a saved node nearer than
\* SNAP_DISTANCE if there is one, the first such, else the place clicked
PenNode(clickPoint) ==
    LET near == {i \in 1..Len(savedNodes) :
                    Within(mapDistanceSq(clickPoint, savedNodes[i]),
                           SNAP_DISTANCE)}
    IN  IF near = {} THEN clickPoint
        ELSE savedNodes[CHOOSE i \in near : \A j \in near : i <= j]

\* `dist > limit` for a squared distance
Beyond(distSq, limit) == distSq > limit * limit

TooFar_fromClick(distSq) == Beyond(distSq, 100)
\* result.distance > 15 of saveValve
TooFar(distSq) == Beyond(distSq, 15)

\* the loop of findNearestPipelinePoint over the segments from i (0-based)
\* on: the closest point found and its distance; distance < 0 stands for
\* Infinity and snapPoint Null for null
RECURSIVE NearestFrom(_, _, _, _)
NearestFrom(clickPoint, pipelineNodes, i, best) ==
    IF i >= Len(pipelineNodes) - 1 THEN best
    ELSE LET closestPoint == getClosestPointOnSegment(clickPoint,
                                 pipelineNodes[i + 1], pipelineNodes[i + 2])
             distance == mapDistanceSqTo(clickPoint, closestPoint.lat,
                                         closestPoint.lng, closestPoint.den)
         IN  IF best.distance < 0 \/ distance < best.distance
             THEN NearestFrom(clickPoint, pipelineNodes, i + 1,
                     [snapPoint |-> <<Pt(closestPoint.lat \div closestPoint.den,
                                         closestPoint.lng \div closestPoint.den)>>,
                      distance |-> distance])
             ELSE NearestFrom(clickPoint, pipelineNodes, i + 1, best)

\* findNearestPipelinePoint(clickPoint); the closest point of a segment of
\* the saved pipeline has whole coordinates
findNearestPipelinePoint(clickPoint) ==
    NearestFrom(clickPoint, savedNodes, 0,
                [snapPoint |-> Null, distance |-> -1])

\* handleValvePlacement(e)
handleValvePlacement(clickPoint) ==
    LET result == findNearestPipelinePoint(clickPoint)
    IN  IF result.distance < 0 \/ Beyond(result.distance, 100)
        THEN UNCHANGED <<valveAddMode, tempValveMarker, valveMarkerPosition,
                         editingValveId, valveForm>>
        ELSE /\ valveMarkerPosition' = result.snapPoint
             /\ tempValveMarker' = TRUE
             /\ editingValveId' = ""
             /\ valveForm' = [valveId |-> "", name |-> ""]
             /\ valveAddMode' = FALSE

\* a click on the map: the handler of the tools takes it for tank placing,
\* else for erasing, else for drawing; the handler of the valves takes it
\* in valveAddMode
MapClick(clickPoint) ==
    /\ (isDrawing /\ ~isAddingTank /\ ~isErasing) =>
           Len(drawnNodes) < MaxDrawn
    /\ IF isAddingTank
       THEN /\ handleTankPlacement
            /\ UNCHANGED <<isErasing, eraserVars, savedNodes, drawnNodes>>
       ELSE IF isErasing
       THEN /\ handleErasing(clickPoint)
            /\ UNCHANGED <<isAddingTank, tempTankMarker, drawnNodes>>
       ELSE IF isDrawing
       THEN /\ drawnNodes' = Append(drawnNodes, PenNode(clickPoint))
            /\ UNCHANGED <<isAddingTank, tempTankMarker, isErasing,
                           eraserVars, savedNodes>>
       ELSE UNCHANGED <<isAddingTank, tempTankMarker, isErasing, eraserVars,
                        savedNodes, drawnNodes>>
    /\ IF valveAddMode
       THEN handleValvePlacement(clickPoint)
       ELSE UNCHANGED <<valveAddMode, tempValveMarker, valveMarkerPosition,
                        editingValveId, valveForm>>
    /\ clickHandlers' =
          (IF isAddingTank THEN {"handleTankPlacement"}
           ELSE IF isErasing THEN {"handleErasing"}
           ELSE IF isDrawing THEN {"drawing"} ELSE {})
          \cup (IF valveAddMode THEN {"handleValvePlacement"} ELSE {})
    /\ UNCHANGED <<isDrawing, selectedPipelineId, valveSends, submitCount,
                   besideMap>>

NextMap ==
    \/ drawBtn
    \/ eraseBtn
    \/ addTankBtn
    \/ addValveBtn
    \/ selectPipeline
    \/ editPipeline
    \/ \E clickPoint \in ClickPoints : MapClick(clickPoint)

SpecMap == InitMap /\ [][NextMap]_vars

\* C33: the second click of the eraser that is near a node, on node j after
\* a first on node i, calls eraseSection with (i, j).
C33_SecondClickErases ==
    [][(Len(eraseClicks) = 1 /\ Len(eraseClicks') = 2) =>
          /\ Len(eraseCalls') = Len(eraseCalls) + 1
          /\ eraseCalls'[Len(eraseCalls')].startIdx = eraseClicks'[1]
          /\ eraseCalls'[Len(eraseCalls')].endIdx = eraseClicks'[2]]_vars

\* the nodes of a call of eraseSection without those strictly between the
\* two indices
WithoutBetween(call) ==
    LET lo == Least(call.startIdx, call.endIdx)
        hi == IF call.startIdx > call.endIdx THEN call.startIdx
              ELSE call.endIdx
    IN  SelectSeq([k \in 1..Len(call.nodes) |->
                       [index |-> k - 1, node |-> call.nodes[k]]],
                  LAMBDA x : x.index <= lo \/ x.index >= hi)

\* C34: every call of eraseSection has sent the nodes it was given without
\* those strictly between the two indices, at least 2 of them, or, when
\* fewer than 2 would remain, has sent nothing.
C34_ErasesExactlyBetween ==
    \A c \in 1..Len(eraseCalls) :
        LET call == eraseCalls[c]
            kept == [k \in 1..Len(WithoutBetween(call)) |->
                        WithoutBetween(call)[k].node]
        IN  IF Len(kept) < 2 THEN call.sent = Null
            ELSE call.sent = <<kept>>

\* the modes that are on
ActiveModes ==
    {m \in {"drawing", "erasing", "tank", "valve"} :
        \/ m = "drawing" /\ isDrawing
        \/ m = "erasing" /\ isErasing
        \/ m = "tank" /\ isAddingTank
        \/ m = "valve" /\ valveAddMode}

\* C36: at most one of drawing, erasing, tank placing and valve placing is
\* on, and the last map click was taken by at most one handler.
C36_OneModeAtATime ==
    /\ Cardinality(ActiveModes) <= 1
    /\ Cardinality(clickHandlers) <= 1

\* ------------------------------------------------------- the valve form
\* A valve marker is put on the map by a click in valveAddMode or by
\* editValve, is dragged, and is saved by the valve form (saveValve).

\* the places of the valves that exist and the places a marker is dragged to
MarkerPoints == ClickPoints \cup {Pt(6, 2)}

\* the other variables of the map's tools
toolVars == <<isDrawing, isErasing, isAddingTank, selectedPipelineId,
              eraserVars, savedNodes, drawnNodes, tempTankMarker>>

\* editValve(valveId) of the valve GV1, which lies at `place`
editValve(place) ==
    /\ tempValveMarker' = TRUE
    /\ valveMarkerPosition' = <<place>>
    /\ editingValveId' = "GV1"
    /\ valveForm' = [valveId |-> "GV1", name |-> "GV1"]
    /\ UNCHANGED <<valveAddMode, valveSends, submitCount, clickHandlers,
                   toolVars, besideMap>>

\* the drag event of the marker
DragMarker(place) ==
    /\ tempValveMarker
    /\ valveMarkerPosition' = <<place>>
    /\ UNCHANGED <<valveAddMode, tempValveMarker, editingValveId, valveForm,
                   valveSends, submitCount, clickHandlers, toolVars,
                   besideMap>>

\* the dragend event of the marker: snapValveToPipeline()
snapValveToPipeline ==
    /\ tempValveMarker
    /\ valveMarkerPosition # Null
    /\ LET result == findNearestPipelinePoint(valveMarkerPosition[1])
       IN  valveMarkerPosition' =
              IF result.distance >= 0 /\ Within(result.distance, 100)
              THEN result.snapPoint
              ELSE valveMarkerPosition
    /\ UNCHANGED <<valveAddMode, tempValveMarker, editingValveId, valveForm,
                   valveSends, submitCount, clickHandlers, toolVars,
                   besideMap>>

\* the user types the valve id and the name into the form
TypeValveForm(id, name) ==
    /\ tempValveMarker
    /\ valveForm' = [valveId |-> IF editingValveId = "" THEN id
                                 ELSE valveForm.valveId,
                     name |-> name]
    /\ UNCHANGED <<valveAddMode, tempValveMarker, valveMarkerPosition,
                   editingValveId, valveSends, submitCount, clickHandlers,
                   toolVars, besideMap>>

\* the cancel button of the valve form
CancelValveForm ==
    /\ tempValveMarker
    /\ tempValveMarker' = FALSE
    /\ editingValveId' = ""
    /\ valveForm' = [valveId |-> "", name |-> ""]
    /\ UNCHANGED <<valveAddMode, valveMarkerPosition, valveSends,
                   submitCount, clickHandlers, toolVars, besideMap>>

\* saveValve(), with the request answered; of the valve data sent the id
\* and the name are kept
SubmitValveForm ==
    /\ submitCount < MaxSubmits
    /\ submitCount' = submitCount + 1
    /\ LET result == IF valveMarkerPosition = Null
                     THEN [snapPoint |-> Null, distance |-> -1]
                     ELSE findNearestPipelinePoint(valveMarkerPosition[1])
       IN  IF \/ valveMarkerPosition = Null
              \/ result.distance < 0
              \/ TooFar(result.distance)
              \/ valveForm.valveId = ""
              \/ valveForm.name = ""
           THEN UNCHANGED <<tempValveMarker, valveMarkerPosition,
                            editingValveId, valveForm, valveSends>>
           ELSE /\ valveSends' = Append(valveSends,
                      [valveId |-> valveForm.valveId, name |-> valveForm.name])
                /\ tempValveMarker' = FALSE
                /\ valveMarkerPosition' = Null
                /\ editingValveId' = ""
                /\ valveForm' = [valveId |-> "", name |-> ""]
    /\ UNCHANGED <<valveAddMode, clickHandlers, toolVars, besideMap>>

NextValveForm ==
    \/ addValveBtn
    \/ \E clickPoint \in ClickPoints : MapClick(clickPoint)
    \/ \E place \in MarkerPoints : editValve(place)
    \/ \E place \in MarkerPoints : DragMarker(place)
    \/ snapValveToPipeline
    \/ \E id \in ValveFormTexts, name \in ValveFormTexts :
          TypeValveForm(id, name)
    \/ CancelValveForm
    \/ SubmitValveForm

SpecValveForm == InitMap /\ [][NextValveForm]_vars

\* the marker lies within 15 m of a segment of the saved pipeline and the
\* valve id and the name are not empty
Sendable ==
    /\ valveMarkerPosition # Null
    /\ \E i \in 1..(Len(savedNodes) - 1) :
          ~Beyond(distanceToSegment(valveMarkerPosition[1], savedNodes[i],
                                    savedNodes[i + 1]), 15)
    /\ valveForm.valveId # ""
    /\ valveForm.name # ""

\* C35: saveValve sends a valve only when the marker is within 15 m of a
\* segment of a pipeline and valve id and name are not empty; a call of
\* saveValve without that sends nothing and leaves marker, editingValveId
\* and form as they were.
C35_SendsOnlyValidValves ==
    [][/\ valveSends' # valveSends => Sendable
       /\ (submitCount' = submitCount + 1 /\ ~Sendable) =>
             UNCHANGED <<valveSends, tempValveMarker, valveMarkerPosition,
                         editingValveId, valveForm>>]_vars

\* a valve has been sent and another call of saveValve has sent nothing
C35_Witness ==
    /\ submitCount = MaxSubmits
    /\ Len(valveSends) = 1
    /\ valveMarkerPosition # Null
    /\ ~Sendable

====
